---- MODULE Spec2Model ----
(***************************************************************************)
(* Repair-shop ticketing service: the ticket stores (relational store      *)
(* services/storage_sqlite.py, file store services/storage.py), the issue  *)
(* extractor, the service facade and the front-desk intake handler.        *)
(*                                                                         *)
(* Text is modelled as a sequence of one-character strings, so that        *)
(* strip(), split(), lower(), upper() and the regular expressions of the   *)
(* source are computed and not assumed.  Scores are in hundredths          *)
(* (1.0 is 100, 0.85 is 85).  Timestamps are whole seconds of a clock.     *)
(***************************************************************************)
EXTENDS Integers, Sequences, FiniteSets, TLC

(***************************************************************************)
(* Bounds of the model.                                                    *)
(***************************************************************************)
MaxTickets == 2

MaxUpdates == 2

MaxClock == 1

MaxPhrases == 3

\* files attached to one ticket
MaxFiles == 2

(***************************************************************************)
(* Characters and the string functions of Python the source uses.          *)
(***************************************************************************)
LowerCase ==
  <<"a","b","c","d","e","f","g","h","i","j","k","l","m",
    "n","o","p","q","r","s","t","u","v","w","x","y","z">>

UpperCase ==
  <<"A","B","C","D","E","F","G","H","I","J","K","L","M",
    "N","O","P","Q","R","S","T","U","V","W","X","Y","Z">>

Digits == <<"0","1","2","3","4","5","6","7","8","9">>

Range(s) == { s[i] : i \in DOMAIN s }

LowerSet == Range(LowerCase)

UpperSet == Range(UpperCase)

DigitSet == Range(Digits)

IndexOf(c, s) == CHOOSE i \in DOMAIN s : s[i] = c

IsSpace(c) == c \in {" ", "\t", "\n"}

\* a character of the class \w
WordSet == LowerSet \cup UpperSet \cup DigitSet \cup {"_"}

IsWord(c) == c \in WordSet

LowerChar(c) == IF c \in UpperSet THEN LowerCase[IndexOf(c, UpperCase)] ELSE c

UpperChar(c) == IF c \in LowerSet THEN UpperCase[IndexOf(c, LowerCase)] ELSE c

\* str.lower()
Lower(s) == [i \in DOMAIN s |-> LowerChar(s[i])]

\* str.upper()
Upper(s) == [i \in DOMAIN s |-> UpperChar(s[i])]

SetMin(S) == CHOOSE x \in S : \A y \in S : x <= y

SetMax(S) == CHOOSE x \in S : \A y \in S : y <= x

\* str.strip()
Strip(s) ==
  LET ink == { i \in DOMAIN s : ~IsSpace(s[i]) }
  IN  IF ink = {} THEN << >> ELSE SubSeq(s, SetMin(ink), SetMax(ink))

\* len(str.split()): the number of maximal runs of non-whitespace characters
SplitCount(s) ==
  Cardinality({ i \in DOMAIN s : ~IsSpace(s[i]) /\ (i = 1 \/ IsSpace(s[i - 1])) })

\* the code-point order of the characters the model uses
CodePoints ==
  <<"\t", "\n", " ", "'", ",", "-", ".">> \o Digits \o <<"@">> \o UpperCase
    \o <<"_">> \o LowerCase

Ord(c) == IndexOf(c, CodePoints)

\* a < b for Python strings
StrLess(a, b) ==
  \E k \in 1..(Len(a) + 1) :
    /\ k <= Len(b)
    /\ \A j \in 1..(k - 1) : a[j] = b[j]
    /\ (k = Len(a) + 1 \/ Ord(a[k]) < Ord(b[k]))

(***************************************************************************)
(* services/models.py                                                      *)
(***************************************************************************)
ST_new == <<"n","e","w">>

ST_received == <<"r","e","c","e","i","v","e","d">>

ST_diagnosing == <<"d","i","a","g","n","o","s","i","n","g">>

ST_repairing == <<"r","e","p","a","i","r","i","n","g">>

ST_ready == <<"r","e","a","d","y"," ","f","o","r"," ","p","i","c","k","u","p">>

ST_completed == <<"c","o","m","p","l","e","t","e","d">>

ALLOWED_STATUSES ==
  <<ST_new, ST_received, ST_diagnosing, ST_repairing, ST_ready, ST_completed>>

\* `x in ALLOWED_STATUSES`
AllowedSet == Range(ALLOWED_STATUSES)

IsAllowedStatus(s) == s \in AllowedSet

\* the default of LabelledIssue.source
RULES == <<"r","u","l","e","s">>

(***************************************************************************)
(* services/extractor.py                                                   *)
(***************************************************************************)
KEYWORDS ==
  <<
    [canonical |-> <<"b","l","a","c","k"," ","s","c","r","e","e","n">>,
     synonyms |-> <<
       <<"b","l","a","c","k"," ","s","c","r","e","e","n">>,
       <<"b","l","a","n","k"," ","s","c","r","e","e","n">>,
       <<"n","o"," ","d","i","s","p","l","a","y">>,
       <<"s","c","r","e","e","n"," ","i","s"," ","o","f","f">>
     >>],
    [canonical |-> <<"b","r","o","k","e","n"," ","s","c","r","e","e","n">>,
     synonyms |-> <<
       <<"b","r","o","k","e","n"," ","s","c","r","e","e","n">>,
       <<"c","r","a","c","k","e","d"," ","s","c","r","e","e","n">>,
       <<"s","h","a","t","t","e","r","e","d"," ","g","l","a","s","s">>,
       <<"s","c","r","e","e","n"," ","c","r","a","c","k","e","d">>
     >>],
    [canonical |-> <<"b","a","t","t","e","r","y"," ","i","s","s","u","e">>,
     synonyms |-> <<
       <<"b","a","t","t","e","r","y"," ","i","s","s","u","e">>,
       <<"b","a","t","t","e","r","y"," ","d","r","a","i","n">>,
       <<"w","o","n","'","t"," ","c","h","a","r","g","e">>,
       <<"n","o","t"," ","c","h","a","r","g","i","n","g">>,
       <<"c","h","a","r","g","i","n","g"," ","i","s","s","u","e">>,
       <<"b","a","t","t","e","r","y"," ","p","r","o","b","l","e","m">>
     >>],
    [canonical |-> <<"o","v","e","r","h","e","a","t","i","n","g">>,
     synonyms |-> <<
       <<"o","v","e","r","h","e","a","t","i","n","g">>,
       <<"o","v","e","r","h","e","a","t">>,
       <<"t","o","o"," ","h","o","t">>,
       <<"h","e","a","t","i","n","g"," ","u","p">>,
       <<"f","a","n"," ","w","o","r","k","i","n","g"," ","c","o","n","s","t","a","n","t","l","y">>
     >>],
    [canonical |-> <<"n","o"," ","s","o","u","n","d">>,
     synonyms |-> <<
       <<"n","o"," ","s","o","u","n","d">>,
       <<"n","o"," ","a","u","d","i","o">>,
       <<"s","p","e","a","k","e","r"," ","n","o","t"," ","w","o","r","k","i","n","g">>,
       <<"m","u","t","e">>
     >>],
    [canonical |-> <<"w","o","n","'","t"," ","t","u","r","n"," ","o","n">>,
     synonyms |-> <<
       <<"w","o","n","'","t"," ","t","u","r","n"," ","o","n">>,
       <<"n","o","t"," ","t","u","r","n","i","n","g"," ","o","n">>,
       <<"d","o","e","s","n","'","t"," ","s","t","a","r","t">>,
       <<"w","o","n","'","t"," ","s","t","a","r","t">>
     >>]
  >>

\* re.sub(r"[^a-z0-9\s]", " ", text.lower())
Normalize(text) ==
  LET low == Lower(text)
  IN  [i \in DOMAIN low |->
         IF low[i] \in LowerSet \/ low[i] \in DigitSet \/ IsSpace(low[i])
         THEN low[i] ELSE " "]

\* \b at the gap before position p of txt (p in 1..Len(txt)+1)
WordBoundary(txt, p) ==
  LET before == p > 1 /\ IsWord(txt[p - 1])
      after  == p <= Len(txt) /\ IsWord(txt[p])
  IN  before # after

\* re.search(rf"\b{re.escape(s)}\b", txt): s is matched literally
SearchWord(s, txt) ==
  \E p \in 1..(Len(txt) - Len(s) + 1) :
    /\ \A i \in DOMAIN s : txt[p + i - 1] = s[i]
    /\ WordBoundary(txt, p)
    /\ WordBoundary(txt, p + Len(s))

\* variant of found[canonical] that keeps the lowest score of the matching synonyms
FoundScore_min(kw, txt) ==
  LET hits == { i \in DOMAIN kw.synonyms : SearchWord(kw.synonyms[i], txt) }
      scores == { IF kw.synonyms[i] = kw.canonical THEN 100 ELSE 85 : i \in hits }
  IN  IF hits = {} THEN 0 ELSE SetMin(scores)

\* the score found[canonical] ends with, 0 when the key is never set
FoundScore(kw, txt) ==
  LET hits == { i \in DOMAIN kw.synonyms : SearchWord(kw.synonyms[i], txt) }
      scores == { IF kw.synonyms[i] = kw.canonical THEN 100 ELSE 85 : i \in hits }
  IN  IF hits = {} THEN 0 ELSE SetMax(scores)

\* the sort key (-score, name)
LabelBefore(a, b) ==
  \/ a.score > b.score
  \/ a.score = b.score /\ StrLess(a.name, b.name)

RECURSIVE SortLabels(_)
SortLabels(S) ==
  IF S = {} THEN << >>
  ELSE LET first == CHOOSE a \in S : \A b \in S \ {a} : LabelBefore(a, b)
       IN  <<first>> \o SortLabels(S \ {first})

\* extract_labels(text): the list of (label, score, source)
extract_labels(text) ==
  LET txt == Normalize(text)
      score == [k \in DOMAIN KEYWORDS |-> FoundScore(KEYWORDS[k], txt)]
      found == { [name |-> KEYWORDS[k].canonical, score |-> score[k], source |-> RULES] :
                 k \in { j \in DOMAIN KEYWORDS : score[j] > 0 } }
  IN  SortLabels(found)


(***************************************************************************)
(* Inputs of the calls.                                                    *)
(***************************************************************************)
EMPTY == << >>

\* the keyword arguments of create_ticket / save_ticket
Form(name, email, device_type, brand, description, actor) ==
  [name |-> name, email |-> email, phone |-> EMPTY, device_type |-> device_type,
   brand |-> brand, model |-> EMPTY, serial |-> EMPTY, accessories |-> EMPTY,
   description |-> description, files |-> << >>, actor |-> actor]

FRONT_DESK == <<"f","r","o","n","t"," ","d","e","s","k">>

TECHNICIAN == <<"t","e","c","h","n","i","c","i","a","n">>

KIOSK == <<"k","i","o","s","k">>

LAPTOP == <<"L","a","p","t","o","p">>

\* a complete intake: two labels, one by its canonical phrase, one by a synonym
FormAda ==
  Form(<<"A","d","a"," ","L","i">>, <<"a","@","e","x",".","i","o">>, LAPTOP, <<"A","c","m","e">>,
       <<"n","o"," ","s","o","u","n","d",","," ","t","o","o"," ","h","o","t">>, FRONT_DESK)

\* a complete intake whose description holds no keyword ("mute" only inside "commute")
FormBo ==
  Form(<<"B","o"," ","L","i">>, <<"b","@","e","x",".","i","o">>, LAPTOP, EMPTY,
       <<"m","y"," ","c","o","m","m","u","t","e">>, KIOSK)

\* a single-word name
FormMadonna ==
  Form(<<"M","a","d","o","n","n","a">>, <<"a","@","e","x",".","i","o">>, LAPTOP, EMPTY,
       <<"m","y"," ","c","o","m","m","u","t","e">>, FRONT_DESK)

\* an empty email
FormNoEmail ==
  Form(<<"A","d","a"," ","L","i">>, EMPTY, LAPTOP, EMPTY,
       <<"m","y"," ","c","o","m","m","u","t","e">>, FRONT_DESK)

\* a whitespace-only email
FormBlankEmail ==
  Form(<<"A","d","a"," ","L","i">>, <<" "," ">>, LAPTOP, EMPTY,
       <<"m","y"," ","c","o","m","m","u","t","e">>, FRONT_DESK)

\* an email that is not of the form local-part, at sign, domain, dot, tld
FormBadEmail ==
  Form(<<"A","d","a"," ","L","i">>, <<"n","o","t","-","a","n","-","e","m","a","i","l">>, LAPTOP, EMPTY,
       <<"m","y"," ","c","o","m","m","u","t","e">>, FRONT_DESK)

Forms == {FormAda, FormBo, FormMadonna, FormNoEmail, FormBlankEmail, FormBadEmail}

\* values new_claim_code() may return: 7 characters of A-Z0-9
ClaimCodes == { <<"A","B","C","1","2","3","4">>, <<"Q","7","Q","7","Q","7","Q">> }

\* values new_ticket_id() may return; uuid4 never returns a value twice
TicketIds == 1..MaxTickets

ST_padded == <<" ">> \o ST_completed \o <<" ">>

ST_bogus == <<"b","o","g","u","s">>

\* status strings callers pass to update_status
StatusInputs == AllowedSet \cup {ST_padded, ST_bogus, EMPTY}

NOTE_wait == <<"p","a","r","t">>

\* phrases descriptions are made of: synonyms and canonical phrases as configured,
\* with and without an apostrophe, in upper case and followed by punctuation, a
\* synonym inside a longer word ("mute" in "commute", "overheat" in "overheating"),
\* and words of no keyword
Phrases ==
  << <<"B","a","t","t","e","r","y">>,
     <<"w","o","n","'","t"," ","c","h","a","r","g","e">>,
     <<"a","n","d">>,
     <<"o","v","e","r","h","e","a","t","i","n","g">>,
     <<"o","v","e","r","h","e","a","t">>,
     <<"t","o","o"," ","h","o","t">>,
     <<"m","u","t","e">>,
     <<"c","o","m","m","u","t","e">>,
     <<"N","o"," ","S","o","u","n","d",",">>,
     <<"n","o","t"," ","c","h","a","r","g","i","n","g">>,
     <<"b","a","t","t","e","r","y"," ","i","s","s","u","e">>,
     <<"d","o","e","s","n","'","t"," ","s","t","a","r","t">> >>

\* the texts of exactly n phrases, one space between two phrases
RECURSIVE TextsOf(_)
TextsOf(n) ==
  IF n = 1 THEN Range(Phrases)
  ELSE { t \o <<" ">> \o ph : t \in TextsOf(n - 1), ph \in Range(Phrases) }

\* "Battery won't charge and overheating"
TEXT_battery ==
  Phrases[1] \o <<" ">> \o Phrases[2] \o <<" ">> \o Phrases[3] \o <<" ">> \o Phrases[4]

\* the texts extract_labels is called with
Texts == UNION { TextsOf(n) : n \in 1..MaxPhrases } \cup {TEXT_battery}

(***************************************************************************)
(* State.                                                                  *)
(*   sql_* : the committed rows of the relational store's tables, each in  *)
(*           rowid order, and the ticket directories it has made;          *)
(*           sql_lock: a call that raised after its first write statement  *)
(*           has left its connection open, and the connection holds the    *)
(*           database's write lock with the call's rows uncommitted        *)
(*   fs_*  : the file store's ticket directories and their meta.json       *)
(*   now   : the clock iso_now() reads, in seconds                         *)
(*   issued: the ticket ids new_ticket_id() has returned                   *)
(*   call, sql_ret, fs_ret: the last call made and what each store         *)
(*           answered (returned or raised); for a call of the extractor,   *)
(*           the text and the list it returned                             *)
(*   born, sql_log, fs_log: a record of the calls that succeeded, kept     *)
(*           beside the stores to state their contract: the create call    *)
(*           of each ticket and the update_status calls each store         *)
(*           accepted, in order                                            *)
(***************************************************************************)
VARIABLES sql_tickets, sql_history, sql_labels, sql_dirs, sql_lock, sql_ret,
          fs_dirs, fs_meta, fs_ret,
          now, issued, call, born, sql_log, fs_log, procs, att

sql_vars == <<sql_tickets, sql_history, sql_labels, sql_dirs>>

fs_vars == <<fs_dirs, fs_meta>>

vars == <<sql_tickets, sql_history, sql_labels, sql_dirs, sql_lock, sql_ret,
          fs_dirs, fs_meta, fs_ret,
          now, issued, call, born, sql_log, fs_log, procs, att>>

\* what a call answered: a return value or the exception it raised
Returned(id) == [kind |-> "ok", id |-> id]

ReturnedNone == [kind |-> "None", id |-> 0]

Raised(exc) == [kind |-> exc, id |-> 0]

NoAnswer == [kind |-> "none", id |-> 0]

(***************************************************************************)
(* services/storage_sqlite.py                                              *)
(***************************************************************************)
SqlIds == { sql_tickets[i].id : i \in DOMAIN sql_tickets }

SqlRow(tid) == sql_tickets[CHOOSE i \in DOMAIN sql_tickets : sql_tickets[i].id = tid]

\* the rows of a table that belong to one ticket, in rowid order
RowsOf(table, tid) == SelectSeq(table, LAMBDA r : r.ticket_id = tid)

\* the rows of a table that belong to other tickets
RowsNotOf(table, tid) == SelectSeq(table, LAMBDA r : r.ticket_id # tid)

\* ORDER BY score DESC: every order of the rows in which scores do not increase
\* (SQL leaves the order of rows of equal score open)
OrderedByScoreDesc(rows) ==
  LET n == Len(rows)
      perms == { p \in [1..n -> 1..n] : \A i, j \in 1..n : i # j => p[i] # p[j] }
  IN  { [i \in 1..n |-> rows[p[i]]] : p \in
          { q \in perms : \A i \in 1..n : i < n => rows[q[i]].score >= rows[q[i + 1]].score } }

\* the history list _row_to_ticket builds: the ticket's rows ORDER BY id ASC
sql_select_history(tid) ==
  LET hrows == RowsOf(sql_history, tid)
  IN  [i \in 1..Len(hrows) |->
         [at |-> hrows[i].at, status |-> hrows[i].status,
          note |-> hrows[i].note, by |-> hrows[i].by_actor]]

\* the tickets _row_to_ticket(conn, row) may return
sql_row_to_ticket(row) ==
  LET hist == sql_select_history(row.id)
  IN  { [id |-> row.id, claim_code |-> row.claim_code, name |-> row.name,
         email |-> row.email, phone |-> row.phone, device_type |-> row.device_type,
         brand |-> row.brand, model |-> row.model, serial |-> row.serial,
         accessories |-> row.accessories, description |-> row.description,
         status |-> row.status, status_history |-> hist,
         labels |-> [i \in 1..Len(l) |->
                       [name |-> l[i].name, score |-> l[i].score, source |-> l[i].source]],
         created_at |-> row.created_at, updated_at |-> row.updated_at,
         root |-> row.id] :
        l \in OrderedByScoreDesc(RowsOf(sql_labels, row.id)) }

\* a call raises before its first write statement, or at a write statement that
\* cannot get the write lock: the store is as it was
SqlRefuses(exc) ==
  /\ sql_ret' = Raised(exc)
  /\ UNCHANGED <<sql_vars, sql_lock>>

\* a call raises after its first write statement and before commit: no function of
\* the store closes its connection on that path, so the rows it wrote stay
\* uncommitted and the connection keeps the write lock until it is collected
SqlAborts(exc) ==
  /\ sql_ret' = Raised(exc)
  /\ sql_lock' = TRUE
  /\ UNCHANGED sql_vars

\* the connection a failed call left open is collected: sqlite3 closes it and rolls
\* its transaction back
sql_collect ==
  /\ sql_lock
  /\ sql_lock' = FALSE
  /\ UNCHANGED sql_vars

\* save_ticket(**kw) with tid, claim, t the values new_ticket_id(), new_claim_code()
\* and iso_now() return.  INSERT INTO tickets waits for the write lock and raises
\* sqlite3.OperationalError when it cannot get it, and raises sqlite3.IntegrityError
\* when it violates PRIMARY KEY or UNIQUE.  extract_labels returns tuples, so
\* lbl.name raises AttributeError for the first label, before the commit.
\* The loop over kw.files that follows the commit is sql_save_files.
sql_save_ticket(kw, tid, claim, t) ==
  LET status == ST_new
      row == [id |-> tid, claim_code |-> claim, name |-> kw.name, email |-> kw.email,
              phone |-> kw.phone, device_type |-> kw.device_type, brand |-> kw.brand,
              model |-> kw.model, serial |-> kw.serial, accessories |-> kw.accessories,
              description |-> kw.description, status |-> status,
              created_at |-> t, updated_at |-> t]
      labels == extract_labels(kw.description)
  IN  IF sql_lock
      THEN SqlRefuses("OperationalError")
      ELSE IF \E i \in DOMAIN sql_tickets :
                sql_tickets[i].id = tid \/ sql_tickets[i].claim_code = claim
      THEN SqlAborts("IntegrityError")
      ELSE IF labels # << >>
      THEN SqlAborts("AttributeError")
      ELSE /\ sql_tickets' = Append(sql_tickets, row)
           /\ sql_history' = Append(sql_history,
                [ticket_id |-> tid, at |-> t, status |-> status, note |-> EMPTY,
                 by_actor |-> kw.actor])
           /\ sql_dirs' = sql_dirs \cup {tid}
           /\ sql_ret' = Returned(tid)
           /\ UNCHANGED <<sql_labels, sql_lock>>

\* load(ticket_id)
sql_load(ticket_id) ==
  IF ticket_id \notin SqlIds
  THEN SqlRefuses("FileNotFoundError")
  ELSE /\ sql_dirs' = sql_dirs \cup {ticket_id}
       /\ sql_ret' = Returned(ticket_id)
       /\ UNCHANGED <<sql_tickets, sql_history, sql_labels, sql_lock>>

\* list_all()
sql_list_all ==
  /\ sql_dirs' = sql_dirs \cup SqlIds
  /\ sql_ret' = Returned(0)
  /\ UNCHANGED <<sql_tickets, sql_history, sql_labels, sql_lock>>

\* the tickets list_all() may return, by id: the rows ORDER BY created_at DESC, in
\* every order in which created_at does not increase (SQL leaves the order of rows
\* of equal created_at open)
SqlListAll ==
  LET n == Len(sql_tickets)
      perms == { p \in [1..n -> 1..n] : \A i, j \in 1..n : i # j => p[i] # p[j] }
  IN  { [i \in 1..n |-> sql_tickets[p[i]].id] : p \in
          { q \in perms : \A i \in 1..n : i < n =>
               sql_tickets[q[i]].created_at >= sql_tickets[q[i + 1]].created_at } }

\* reclassify(ticket_id): the SELECT reads also while the database is locked; the
\* DELETE needs the write lock; lbl.name raises AttributeError for the first label
sql_reclassify(ticket_id) ==
  IF ticket_id \notin SqlIds
  THEN SqlRefuses("FileNotFoundError")
  ELSE IF sql_lock
  THEN SqlRefuses("OperationalError")
  ELSE IF extract_labels(SqlRow(ticket_id).description) # << >>
  THEN SqlAborts("AttributeError")
  ELSE /\ sql_labels' = RowsNotOf(sql_labels, ticket_id)
       /\ sql_dirs' = sql_dirs \cup {ticket_id}
       /\ sql_ret' = Returned(ticket_id)
       /\ UNCHANGED <<sql_tickets, sql_history, sql_lock>>

\* variant of update_status that leaves out the INSERT INTO status_history
sql_update_status_no_history(ticket_id, status, note, actor, t) ==
  LET st == Strip(status)
  IN  IF ~IsAllowedStatus(st)
      THEN SqlRefuses("ValueError")
      ELSE IF sql_lock
      THEN SqlRefuses("OperationalError")
      ELSE IF ticket_id \notin SqlIds
      THEN SqlAborts("IntegrityError")
      ELSE /\ sql_tickets' = [i \in DOMAIN sql_tickets |->
                                IF sql_tickets[i].id = ticket_id
                                THEN [sql_tickets[i] EXCEPT !.status = st, !.updated_at = t]
                                ELSE sql_tickets[i]]
           /\ sql_dirs' = sql_dirs \cup {ticket_id}
           /\ sql_ret' = Returned(ticket_id)
           /\ UNCHANGED <<sql_history, sql_labels, sql_lock>>

\* variant of update_status that leaves out the ALLOWED_STATUSES test
sql_update_status_unchecked(ticket_id, status, note, actor, t) ==
  LET st == Strip(status)
  IN  IF sql_lock
      THEN SqlRefuses("OperationalError")
      ELSE IF ticket_id \notin SqlIds
      THEN SqlAborts("IntegrityError")
      ELSE /\ sql_tickets' = [i \in DOMAIN sql_tickets |->
                                IF sql_tickets[i].id = ticket_id
                                THEN [sql_tickets[i] EXCEPT !.status = st, !.updated_at = t]
                                ELSE sql_tickets[i]]
           /\ sql_history' = Append(sql_history,
                [ticket_id |-> ticket_id, at |-> t, status |-> st, note |-> note,
                 by_actor |-> actor])
           /\ sql_dirs' = sql_dirs \cup {ticket_id}
           /\ sql_ret' = Returned(ticket_id)
           /\ UNCHANGED <<sql_labels, sql_lock>>

\* variant of update_status that refuses a status listed before the ticket's own
sql_update_status_forward_only(ticket_id, status, note, actor, t) ==
  LET st == Strip(status)
  IN  IF ~IsAllowedStatus(st)
      THEN SqlRefuses("ValueError")
      ELSE IF sql_lock
      THEN SqlRefuses("OperationalError")
      ELSE IF ticket_id \notin SqlIds
      THEN SqlAborts("IntegrityError")
      ELSE IF IndexOf(st, ALLOWED_STATUSES) < IndexOf(SqlRow(ticket_id).status, ALLOWED_STATUSES)
      THEN SqlRefuses("ValueError")
      ELSE /\ sql_tickets' = [i \in DOMAIN sql_tickets |->
                                IF sql_tickets[i].id = ticket_id
                                THEN [sql_tickets[i] EXCEPT !.status = st, !.updated_at = t]
                                ELSE sql_tickets[i]]
           /\ sql_history' = Append(sql_history,
                [ticket_id |-> ticket_id, at |-> t, status |-> st, note |-> note,
                 by_actor |-> actor])
           /\ sql_dirs' = sql_dirs \cup {ticket_id}
           /\ sql_ret' = Returned(ticket_id)
           /\ UNCHANGED <<sql_labels, sql_lock>>

\* update_status(ticket_id, status, note=note, actor=actor) with t the value of
\* iso_now().  The UPDATE needs the write lock.  For an id no ticket has, the
\* UPDATE changes no row and the INSERT violates the foreign key of status_history
\* (PRAGMA foreign_keys=ON): it raises sqlite3.IntegrityError before the commit.
sql_update_status(ticket_id, status, note, actor, t) ==
  LET st == Strip(status)
  IN  IF ~IsAllowedStatus(st)
      THEN SqlRefuses("ValueError")
      ELSE IF sql_lock
      THEN SqlRefuses("OperationalError")
      ELSE IF ticket_id \notin SqlIds
      THEN SqlAborts("IntegrityError")
      ELSE /\ sql_tickets' = [i \in DOMAIN sql_tickets |->
                                IF sql_tickets[i].id = ticket_id
                                THEN [sql_tickets[i] EXCEPT !.status = st, !.updated_at = t]
                                ELSE sql_tickets[i]]
           /\ sql_history' = Append(sql_history,
                [ticket_id |-> ticket_id, at |-> t, status |-> st, note |-> note,
                 by_actor |-> actor])
           /\ sql_dirs' = sql_dirs \cup {ticket_id}
           /\ sql_ret' = Returned(ticket_id)
           /\ UNCHANGED <<sql_labels, sql_lock>>

\* the rows SELECT * FROM tickets WHERE UPPER(claim_code) = ? finds
SqlClaimMatches(claim_code) ==
  LET code == Upper(Strip(claim_code))
  IN  { i \in DOMAIN sql_tickets : Upper(sql_tickets[i].claim_code) = code }

\* find_by_claim(claim_code)
sql_find_by_claim(claim_code) ==
  IF SqlClaimMatches(claim_code) = {}
  THEN /\ sql_ret' = ReturnedNone
       /\ UNCHANGED <<sql_vars, sql_lock>>
  ELSE /\ \E i \in SqlClaimMatches(claim_code) :
            /\ sql_ret' = Returned(sql_tickets[i].id)
            /\ sql_dirs' = sql_dirs \cup {sql_tickets[i].id}
       /\ UNCHANGED <<sql_tickets, sql_history, sql_labels, sql_lock>>

\* another client of data/app.db rewrites the description column of a ticket's row
\* (UPDATE tickets SET description = ? WHERE id = ?); while a failed call's
\* connection holds the write lock the client is refused
sql_edit_description(ticket_id, d) ==
  IF ticket_id \in SqlIds /\ ~sql_lock
  THEN /\ sql_tickets' = [i \in DOMAIN sql_tickets |->
                            IF sql_tickets[i].id = ticket_id
                            THEN [sql_tickets[i] EXCEPT !.description = d]
                            ELSE sql_tickets[i]]
       /\ UNCHANGED <<sql_history, sql_labels, sql_dirs, sql_lock>>
  ELSE UNCHANGED <<sql_vars, sql_lock>>

(***************************************************************************)
(* services/models.py: Ticket.as_json, and the reading of it back in        *)
(* services/storage.py: load                                               *)
(***************************************************************************)
\* the members of the JSON object as_json() writes: every field of the
\* dataclass whose name does not start with "_"
as_json(t) == [k \in (DOMAIN t) \ {"root"} |-> t[k]]

\* the Ticket load() builds from the parsed meta.json of `folder`
ticket_from_json(data, folder) ==
  [id |-> data.id, claim_code |-> data.claim_code, name |-> data.name,
   email |-> data.email, phone |-> data.phone, device_type |-> data.device_type,
   brand |-> data.brand, model |-> data.model, serial |-> data.serial,
   accessories |-> data.accessories, description |-> data.description,
   status |-> data.status, status_history |-> data.status_history,
   labels |-> [i \in 1..Len(data.labels) |->
                 [name |-> data.labels[i].name, score |-> data.labels[i].score,
                  source |-> data.labels[i].source]],
   created_at |-> data.created_at, updated_at |-> data.updated_at,
   root |-> folder]

(***************************************************************************)
(* services/storage.py                                                     *)
(***************************************************************************)
FsIds == DOMAIN fs_meta

\* (folder / "meta.json").write_text(t.as_json())
WriteMeta(t) ==
  fs_meta' = [i \in FsIds \cup {t.root} |-> IF i = t.root THEN as_json(t) ELSE fs_meta[i]]

NOTE_created ==
  <<"T","i","c","k","e","t"," ","c","r","e","a","t","e","d">>

\* save_ticket(**kw) with tid, claim the values new_ticket_id() and new_claim_code()
\* return and t1 <= t2 <= t3 the values of its three iso_now() calls.
\* The loop over kw.files that follows the write of meta.json is fs_save_files.
fs_save_ticket(kw, tid, claim, t1, t2, t3) ==
  IF Strip(kw.name) = EMPTY \/ SplitCount(kw.name) < 2
  THEN /\ fs_ret' = Raised("ValueError")
       /\ UNCHANGED fs_vars
  ELSE IF Strip(kw.email) = EMPTY
  THEN /\ fs_ret' = Raised("ValueError")
       /\ UNCHANGED fs_vars
  ELSE LET status == ST_new
           t == [id |-> tid, claim_code |-> claim, name |-> Strip(kw.name),
                 email |-> Strip(kw.email), phone |-> Strip(kw.phone),
                 device_type |-> Strip(kw.device_type), brand |-> Strip(kw.brand),
                 model |-> Strip(kw.model), serial |-> Strip(kw.serial),
                 accessories |-> Strip(kw.accessories),
                 description |-> Strip(kw.description), status |-> status,
                 status_history |->
                   << [at |-> t1, status |-> status, note |-> NOTE_created,
                       by |-> kw.actor] >>,
                 labels |-> extract_labels(kw.description),
                 created_at |-> t2, updated_at |-> t3, root |-> tid]
       IN  /\ fs_dirs' = fs_dirs \cup {tid}
           /\ WriteMeta(t)
           /\ fs_ret' = Returned(tid)

\* load(ticket_id): ticket_dir() makes the directory before meta.json is read
fs_load(ticket_id) ==
  /\ fs_dirs' = fs_dirs \cup {ticket_id}
  /\ fs_ret' = IF ticket_id \in FsIds THEN Returned(ticket_id)
               ELSE Raised("FileNotFoundError")
  /\ UNCHANGED fs_meta

\* list_all(): only directories that hold a meta.json are loaded
fs_list_all ==
  /\ fs_ret' = Returned(0)
  /\ UNCHANGED fs_vars

\* out.sort(key=lambda t: (t.created_at or "", t.id), reverse=True), by id
RECURSIVE SortNewestFirst(_)
SortNewestFirst(ids) ==
  IF ids = {} THEN << >>
  ELSE LET first == CHOOSE a \in ids : \A b \in ids \ {a} :
                      \/ fs_meta[a].created_at > fs_meta[b].created_at
                      \/ fs_meta[a].created_at = fs_meta[b].created_at /\ a > b
       IN  <<first>> \o SortNewestFirst(ids \ {first})

\* the tickets list_all() returns, by id
FsListAll == SortNewestFirst(FsIds)

\* variant of reclassify that adds the labels of the description to those stored
fs_reclassify_merges(ticket_id, t) ==
  /\ fs_dirs' = fs_dirs \cup {ticket_id}
  /\ IF ticket_id \notin FsIds
     THEN /\ fs_ret' = Raised("FileNotFoundError")
          /\ UNCHANGED fs_meta
     ELSE LET t0 == ticket_from_json(fs_meta[ticket_id], ticket_id)
              t1 == [t0 EXCEPT !.labels = @ \o extract_labels(t0.description),
                               !.updated_at = t]
          IN  /\ WriteMeta(t1)
              /\ fs_ret' = Returned(ticket_id)

\* variant of reclassify that records the call in the status history
fs_reclassify_logs(ticket_id, t) ==
  /\ fs_dirs' = fs_dirs \cup {ticket_id}
  /\ IF ticket_id \notin FsIds
     THEN /\ fs_ret' = Raised("FileNotFoundError")
          /\ UNCHANGED fs_meta
     ELSE LET t0 == ticket_from_json(fs_meta[ticket_id], ticket_id)
              t1 == [t0 EXCEPT !.labels = extract_labels(t0.description),
                               !.updated_at = t,
                               !.status_history = Append(@,
                                  [at |-> t, status |-> t0.status, note |-> EMPTY,
                                   by |-> TECHNICIAN])]
          IN  /\ WriteMeta(t1)
              /\ fs_ret' = Returned(ticket_id)

\* reclassify(ticket_id) with t the value of iso_now()
fs_reclassify(ticket_id, t) ==
  /\ fs_dirs' = fs_dirs \cup {ticket_id}
  /\ IF ticket_id \notin FsIds
     THEN /\ fs_ret' = Raised("FileNotFoundError")
          /\ UNCHANGED fs_meta
     ELSE LET t0 == ticket_from_json(fs_meta[ticket_id], ticket_id)
              t1 == [t0 EXCEPT !.labels = extract_labels(t0.description),
                               !.updated_at = t]
          IN  /\ WriteMeta(t1)
              /\ fs_ret' = Returned(ticket_id)

\* variant of update_status that puts the new entry at the head of the history
fs_update_status_prepends(ticket_id, status, note, actor, t1, t2) ==
  IF ~IsAllowedStatus(status)
  THEN /\ fs_ret' = Raised("ValueError")
       /\ UNCHANGED fs_vars
  ELSE /\ fs_dirs' = fs_dirs \cup {ticket_id}
       /\ IF ticket_id \notin FsIds
          THEN /\ fs_ret' = Raised("FileNotFoundError")
               /\ UNCHANGED fs_meta
          ELSE LET t0 == ticket_from_json(fs_meta[ticket_id], ticket_id)
                   t == [t0 EXCEPT
                           !.status = status,
                           !.updated_at = t1,
                           !.status_history =
                              <<[at |-> t2, status |-> status, note |-> note,
                                 by |-> actor]>> \o @]
               IN  /\ WriteMeta(t)
                   /\ fs_ret' = Returned(ticket_id)

\* variant of update_status that leaves out the ALLOWED_STATUSES test
fs_update_status_unchecked(ticket_id, status, note, actor, t1, t2) ==
  /\ fs_dirs' = fs_dirs \cup {ticket_id}
  /\ IF ticket_id \notin FsIds
     THEN /\ fs_ret' = Raised("FileNotFoundError")
          /\ UNCHANGED fs_meta
     ELSE LET t0 == ticket_from_json(fs_meta[ticket_id], ticket_id)
              t == [t0 EXCEPT
                      !.status = status,
                      !.updated_at = t1,
                      !.status_history = Append(@,
                         [at |-> t2, status |-> status, note |-> note,
                          by |-> actor])]
          IN  /\ WriteMeta(t)
              /\ fs_ret' = Returned(ticket_id)

\* variant of update_status that writes the ticket back without its labels
fs_update_status_drops_labels(ticket_id, status, note, actor, t1, t2) ==
  IF ~IsAllowedStatus(status)
  THEN /\ fs_ret' = Raised("ValueError")
       /\ UNCHANGED fs_vars
  ELSE /\ fs_dirs' = fs_dirs \cup {ticket_id}
       /\ IF ticket_id \notin FsIds
          THEN /\ fs_ret' = Raised("FileNotFoundError")
               /\ UNCHANGED fs_meta
          ELSE LET t0 == ticket_from_json(fs_meta[ticket_id], ticket_id)
                   t == [t0 EXCEPT
                           !.status = status,
                           !.updated_at = t1,
                           !.labels = << >>,
                           !.status_history = Append(@,
                              [at |-> t2, status |-> status, note |-> note,
                               by |-> actor])]
               IN  /\ WriteMeta(t)
                   /\ fs_ret' = Returned(ticket_id)

\* update_status(ticket_id, status, note=note, actor=actor) with t1 <= t2 the
\* values of its two iso_now() calls
fs_update_status(ticket_id, status, note, actor, t1, t2) ==
  IF ~IsAllowedStatus(status)
  THEN /\ fs_ret' = Raised("ValueError")
       /\ UNCHANGED fs_vars
  ELSE /\ fs_dirs' = fs_dirs \cup {ticket_id}
       /\ IF ticket_id \notin FsIds
          THEN /\ fs_ret' = Raised("FileNotFoundError")
               /\ UNCHANGED fs_meta
          ELSE LET t0 == ticket_from_json(fs_meta[ticket_id], ticket_id)
                   t == [t0 EXCEPT
                           !.status = status,
                           !.updated_at = t1,
                           !.status_history = Append(@,
                              [at |-> t2, status |-> status, note |-> note,
                               by |-> actor])]
               IN  /\ WriteMeta(t)
                   /\ fs_ret' = Returned(ticket_id)

\* the folders whose meta.json holds the code, compared in upper case
FsClaimMatches(claim_code) ==
  LET code == Upper(Strip(claim_code))
  IN  { i \in FsIds : Upper(fs_meta[i].claim_code) = code }

\* find_by_claim(claim_code): the first match in the order glob() yields
fs_find_by_claim(claim_code) ==
  /\ fs_ret' \in IF FsClaimMatches(claim_code) = {} THEN {ReturnedNone}
                 ELSE { Returned(fs_meta[i].id) : i \in FsClaimMatches(claim_code) }
  /\ UNCHANGED fs_vars

\* the description member of a ticket's meta.json is rewritten outside the store
fs_edit_description(ticket_id, d) ==
  IF ticket_id \in FsIds
  THEN /\ fs_meta' = [fs_meta EXCEPT ![ticket_id].description = d]
       /\ UNCHANGED fs_dirs
  ELSE UNCHANGED fs_vars

(***************************************************************************)
(* services/tickets.py: the facade, bound to the relational store          *)
(***************************************************************************)
create_ticket(kw, tid, claim, t) == sql_save_ticket(kw, tid, claim, t)

load_ticket(ticket_id) == sql_load(ticket_id)

(***************************************************************************)
(* app_streamlit.py: the validators and the submit handler of the intake   *)
(* form                                                                    *)
(***************************************************************************)
\* is_valid_full_name(name)
is_valid_full_name(name) == SplitCount(Strip(name)) >= 2

\* EMAIL_RE.match(s) for EMAIL_RE = ^[^@\s]+@[^@\s]+\.[^@\s]+$
MatchesEmailRe(s) ==
  \E p, q \in DOMAIN s :
    /\ 1 < p /\ p + 1 < q /\ q < Len(s)
    /\ s[p] = "@" /\ s[q] = "."
    /\ \A i \in DOMAIN s : i # p => (s[i] # "@" /\ ~IsSpace(s[i]))

\* variant of is_valid_email that asks for a non-empty address only
is_valid_email_nonempty(email) == Strip(email) # EMPTY

\* is_valid_email(email)
is_valid_email(email) == MatchesEmailRe(Strip(email))

\* the messages the submit handler collects in errs
IntakeErrors(kw) ==
  (IF is_valid_full_name(kw.name) THEN {} ELSE {"name"})
    \cup (IF is_valid_email(kw.email) THEN {} ELSE {"email"})
    \cup (IF Strip(kw.description) = EMPTY THEN {"description"} ELSE {})

(***************************************************************************)
(* The calls.  A call of the store interface is given to both stores, side *)
(* by side, with the same arguments and the same generated id, claim code  *)
(* and clock readings; each store answers for itself.  A call starts at    *)
(* clock value now and lasts at most `span` seconds more: the k-th         *)
(* iso_now() of the call reads the k-th value of a non-decreasing sequence *)
(* of clock values of that window.  Each call draws its arguments from the *)
(* sets it is given.                                                       *)
(***************************************************************************)
NoForm == Form(EMPTY, EMPTY, EMPTY, EMPTY, EMPTY, EMPTY)

Call(op) ==
  [op |-> op, kw |-> NoForm, id |-> 0, status |-> EMPTY, note |-> EMPTY,
   actor |-> EMPTY, code |-> EMPTY, errs |-> {}, text |-> EMPTY, labels |-> << >>]

\* the clock values a call that starts now may end at
CallEnds(span) == { e \in now..(now + span) : e <= MaxClock }

\* the accepted update_status calls recorded so far, over all tickets
RECURSIVE TotalLen(_, _)
TotalLen(log, ids) ==
  IF ids = {} THEN 0
  ELSE LET i == CHOOSE j \in ids : TRUE
       IN  Len(log[i]) + TotalLen(log, ids \ {i})

UpdatesDone ==
  LET a == TotalLen(sql_log, TicketIds)
      b == TotalLen(fs_log, TicketIds)
  IN  IF a >= b THEN a ELSE b

(***************************************************************************)
(* Attachments: the files argument of save_ticket.  A file is a buffered   *)
(* upload object (with a name, a MIME type and its bytes), raw bytes, or   *)
(* the path of a file that exists.                                         *)
(***************************************************************************)
ALLOWED_EXTS ==
  { <<".","j","p","g">>, <<".","j","p","e","g">>, <<".","p","n","g">>,
    <<".","g","i","f">>, <<".","w","e","b","p">>, <<".","p","d","f">> }

\* Path(p).name: what follows the last "/"
Basename(path) ==
  LET slashes == { i \in DOMAIN path : path[i] = "/" }
  IN  IF slashes = {} THEN path ELSE SubSeq(path, SetMax(slashes) + 1, Len(path))

\* Path(p).suffix: the name from its last "." on, unless that is its first or its
\* last character
Suffix(path) ==
  LET name == Basename(path)
      dots == { i \in DOMAIN name : name[i] = "." }
  IN  IF dots = {} THEN EMPTY
      ELSE IF SetMax(dots) > 1 /\ SetMax(dots) < Len(name)
      THEN SubSeq(name, SetMax(dots), Len(name))
      ELSE EMPTY

\* _allowed_file(path), the same in both stores
allowed_file(path) == Lower(Suffix(path)) \in ALLOWED_EXTS

Upload(name, type) == [shape |-> "upload", name |-> name, type |-> type]

RawBytes == [shape |-> "bytes", name |-> EMPTY, type |-> EMPTY]

PathTo(path) == [shape |-> "path", name |-> path, type |-> EMPTY]

MIME_pdf == <<"a","p","p","l","i","c","a","t","i","o","n","/","p","d","f">>

MIME_exe == <<"a","p","p","l","i","c","a","t","i","o","n","/","x","-","m","s","d","o","s">>

\* the files callers attach: of every shape, with and without an allowed
\* extension, in upper case, with two extensions, with none, in a directory
FileInputs ==
  { Upload(<<"a",".","P","D","F">>, MIME_pdf),
    Upload(<<"e",".","e","x","e">>, MIME_exe),
    RawBytes,
    PathTo(<<"d","/","c",".","P","N","G">>),
    PathTo(<<"b",".","e","x","e">>),
    PathTo(<<"p",".","j","p","g",".","e","x","e">>),
    PathTo(<<"n","o","e","x","t">>) }

\* the lists of at most n files
RECURSIVE FileLists(_)
FileLists(n) ==
  IF n = 0 THEN { << >> }
  ELSE FileLists(n - 1) \cup
         { Append(l, f) : l \in { m \in FileLists(n - 1) : Len(m) = n - 1 },
                          f \in FileInputs }

\* the name storage_sqlite gives the k-th file of a call when it is raw bytes:
\* f"upload_{uuid4().hex}.bin", a new name each time
BinName(tid, k) ==
  <<"u","p","l","o","a","d","_", Digits[tid + 1], Digits[k + 1], ".","b","i","n">>

\* nothing attached: the files in the attachment directories of the two stores,
\* as <<ticket id, file name>>, and the rows of the attachments table
NoFiles == [sql_files |-> {}, sql_rows |-> << >>, fs_files |-> {}]

\* storage_sqlite.save_ticket, the loop over the files after the commit, from the
\* k-th file on.  named and name are the local variable `name`: the branch for a
\* path does not assign it, so the INSERT of a path reads the name the file before
\* it left there, or raises UnboundLocalError, which the loop swallows like every
\* other exception.
RECURSIVE sql_save_files(_, _, _, _, _, _)
sql_save_files(a, files, tid, k, named, name) ==
  IF k > Len(files) THEN a
  ELSE LET f == files[k]
       IN  IF f.shape = "upload"
           THEN LET n == Basename(f.name)
                IN  sql_save_files(
                      [a EXCEPT !.sql_files = @ \cup {<<tid, n>>},
                                !.sql_rows = Append(@, [ticket_id |-> tid, filename |-> n,
                                                        path |-> n, mime |-> f.type])],
                      files, tid, k + 1, TRUE, n)
           ELSE IF f.shape = "bytes"
           THEN LET n == BinName(tid, k)
                IN  sql_save_files(
                      [a EXCEPT !.sql_files = @ \cup {<<tid, n>>},
                                !.sql_rows = Append(@, [ticket_id |-> tid, filename |-> n,
                                                        path |-> n, mime |-> EMPTY])],
                      files, tid, k + 1, TRUE, n)
           ELSE IF ~allowed_file(f.name)
           THEN sql_save_files(a, files, tid, k + 1, named, name)
           ELSE IF ~named
           THEN sql_save_files([a EXCEPT !.sql_files = @ \cup {<<tid, Basename(f.name)>>}],
                               files, tid, k + 1, named, name)
           ELSE sql_save_files(
                  [a EXCEPT !.sql_files = @ \cup {<<tid, Basename(f.name)>>},
                            !.sql_rows = Append(@, [ticket_id |-> tid, filename |-> name,
                                                    path |-> Basename(f.name),
                                                    mime |-> EMPTY])],
                  files, tid, k + 1, named, name)

\* storage.save_ticket, the loop over the files after meta.json is written
fs_save_files(a, files, tid) ==
  [a EXCEPT !.fs_files = @ \cup
     { <<tid, Basename(files[k].name)>> :
         k \in { i \in DOMAIN files : /\ files[i].shape \in {"upload", "path"}
                                      /\ allowed_file(files[i].name) } }]

\* the callers that may have a call in flight at the same time
Procs == 1..2

\* a connection with no statement executed
NoConn == [holds |-> FALSE, tickets |-> << >>, updates |-> << >>, history |-> << >>]

\* a caller between calls
Idle ==
  [op |-> "idle", store |-> "none", pc |-> "idle", kw |-> NoForm, id |-> 0,
   code |-> EMPTY, status |-> EMPTY, note |-> EMPTY, actor |-> EMPTY,
   ret |-> NoAnswer, t |-> << >>, conn |-> NoConn]

\* time passes between calls
Tick ==
  /\ now < MaxClock
  /\ now' = now + 1
  /\ UNCHANGED <<sql_tickets, sql_history, sql_labels, sql_dirs, sql_lock, sql_ret,
                 fs_dirs, fs_meta, fs_ret, issued, call, born, sql_log, fs_log, procs, att>>

\* the garbage collector finds the connection a failed call left open
Collect ==
  /\ sql_collect
  /\ UNCHANGED <<sql_ret, fs_dirs, fs_meta, fs_ret, now, issued, call, born,
                 sql_log, fs_log, procs, att>>

\* save_ticket(**kw)
SaveTicket(forms, codes, span) ==
  \E kw \in forms, tid \in TicketIds \ issued, claim \in codes, end \in CallEnds(span) :
    \E t1, t2, t3 \in now..end :
      /\ t1 <= t2 /\ t2 <= t3
      /\ sql_save_ticket(kw, tid, claim, t1)
      /\ fs_save_ticket(kw, tid, claim, t1, t2, t3)
      /\ now' = end
      /\ issued' = issued \cup {tid}
      /\ call' = [Call("save_ticket") EXCEPT !.kw = kw, !.id = tid, !.code = claim]
      /\ born' = (tid :> [actor |-> kw.actor, from |-> now, to |-> end]) @@ born
      /\ att' = LET a == IF sql_ret'.kind = "ok"
                          THEN sql_save_files(att, kw.files, tid, 1, FALSE, EMPTY)
                          ELSE att
                IN  IF fs_ret'.kind = "ok" THEN fs_save_files(a, kw.files, tid) ELSE a
      /\ UNCHANGED <<sql_log, fs_log, procs>>

\* update_status(ticket_id, status, note=note, actor=actor); the cap on the
\* number of accepted updates leaves the calls no store accepts free
UpdateStatus(args, span) ==
  \E ticket_id \in TicketIds, a \in args, end \in CallEnds(span) :
    \E t1, t2 \in now..end :
      /\ t1 <= t2
      /\ UpdatesDone < MaxUpdates \/ ~IsAllowedStatus(Strip(a.status))
      /\ sql_update_status(ticket_id, a.status, a.note, a.actor, t1)
      /\ fs_update_status(ticket_id, a.status, a.note, a.actor, t1, t2)
      /\ now' = end
      /\ call' = [Call("update_status") EXCEPT !.id = ticket_id, !.status = a.status,
                                               !.note = a.note, !.actor = a.actor]
      /\ sql_log' = IF sql_ret'.kind = "ok"
                    THEN [sql_log EXCEPT ![ticket_id] = Append(@, a)]
                    ELSE sql_log
      /\ fs_log' = IF fs_ret'.kind = "ok"
                   THEN [fs_log EXCEPT ![ticket_id] = Append(@, a)]
                   ELSE fs_log
      /\ UNCHANGED <<issued, born, procs, att>>

\* reclassify(ticket_id)
Reclassify(span) ==
  \E ticket_id \in TicketIds, end \in CallEnds(span) :
    \E t \in now..end :
      /\ sql_reclassify(ticket_id)
      /\ fs_reclassify(ticket_id, t)
      /\ now' = end
      /\ call' = [Call("reclassify") EXCEPT !.id = ticket_id]
      /\ UNCHANGED <<issued, born, sql_log, fs_log, procs, att>>

\* load(ticket_id)
Load ==
  \E ticket_id \in TicketIds :
    /\ sql_load(ticket_id)
    /\ fs_load(ticket_id)
    /\ call' = [Call("load") EXCEPT !.id = ticket_id]
    /\ UNCHANGED <<now, issued, born, sql_log, fs_log, procs, att>>

\* list_all()
ListAll ==
  /\ sql_list_all
  /\ fs_list_all
  /\ call' = Call("list_all")
  /\ UNCHANGED <<now, issued, born, sql_log, fs_log, procs, att>>

\* find_by_claim(claim_code)
FindByClaim(codes) ==
  \E code \in codes :
    /\ sql_find_by_claim(code)
    /\ fs_find_by_claim(code)
    /\ call' = [Call("find_by_claim") EXCEPT !.code = code]
    /\ UNCHANGED <<now, issued, born, sql_log, fs_log, procs, att>>

\* the stored description of a ticket is changed from outside, in both stores
EditDescription(descs) ==
  \E ticket_id \in SqlIds \cup FsIds, d \in descs :
    /\ sql_edit_description(ticket_id, d)
    /\ fs_edit_description(ticket_id, d)
    /\ sql_ret' = NoAnswer
    /\ fs_ret' = NoAnswer
    /\ call' = [Call("edit_description") EXCEPT !.id = ticket_id]
    /\ UNCHANGED <<now, issued, born, sql_log, fs_log, procs, att>>

\* extract_labels(text) for the text at hand: the call and the list it returned
Extract ==
    /\ call.op = "text"
    /\ call' = [Call("extract_labels") EXCEPT !.text = call.text,
                                             !.labels = extract_labels(call.text)]
    /\ UNCHANGED <<sql_tickets, sql_history, sql_labels, sql_dirs, sql_lock, sql_ret,
                   fs_dirs, fs_meta, fs_ret, now, issued, born, sql_log, fs_log, procs, att>>

\* app_streamlit.py, `if submitted:` -- the intake form is validated; a valid form
\* goes to create_ticket(..., actor="front desk").  When that returns, load_ticket(tid)
\* reads the ticket back, which changes nothing create_ticket has not set; when it
\* raises, the handler ends there.
Intake(forms, codes, span) ==
  \E form \in forms :
    LET kw == [form EXCEPT !.actor = FRONT_DESK]
        errs == IntakeErrors(kw)
    IN  /\ IF errs # {}
           THEN /\ call' = [Call("intake") EXCEPT !.kw = kw, !.errs = errs]
                /\ sql_ret' = NoAnswer
                /\ UNCHANGED <<sql_vars, sql_lock, now, issued, born, att>>
           ELSE \E tid \in TicketIds \ issued, claim \in codes, end \in CallEnds(span) :
                  \E t \in now..end :
                    /\ create_ticket(kw, tid, claim, t)
                    /\ call' = [Call("intake") EXCEPT !.kw = kw, !.id = tid, !.code = claim]
                    /\ now' = end
                    /\ issued' = issued \cup {tid}
                    /\ born' = (tid :> [actor |-> kw.actor, from |-> now, to |-> end]) @@ born
                    /\ att' = IF sql_ret'.kind = "ok"
                              THEN sql_save_files(att, kw.files, tid, 1, FALSE, EMPTY)
                              ELSE att
        /\ fs_ret' = NoAnswer
        /\ UNCHANGED <<fs_vars, sql_log, fs_log, procs>>

(***************************************************************************)
(* Calls in flight.  Two callers use a store at the same time, and the     *)
(* statements of their calls interleave: a caller is at one place in one   *)
(* call to one store.  The relational store's statements run in the        *)
(* transaction of the call's connection: the rows they write are pending   *)
(* in the connection and reach the tables at commit; the first write       *)
(* statement takes the write lock of the database, and a caller that finds *)
(* the lock taken waits for it or gives up after the timeout of the        *)
(* connection.  The file store reads and writes meta.json with no lock:    *)
(* write_text opens the file, which empties it, and writes the text from   *)
(* the start of the file when it closes it.                                *)
(***************************************************************************)
\* the place of a caller changes
Goto(p, rec) == procs' = [procs EXCEPT ![p] = rec]

\* the call of caller p ends with an exception
Raise(p, exc) == Goto(p, [procs[p] EXCEPT !.pc = "raised", !.ret = Raised(exc)])

\* the update_status calls that are past their start and have not ended
InFlightUpdates ==
  Cardinality({ p \in Procs : /\ procs[p].op = "update_status"
                              /\ procs[p].pc \notin {"done", "raised"} })

\* a caller calls save_ticket(**kw) of one of the stores
BeginSave(forms, codes) ==
  \E p \in Procs, store \in {"sql", "fs"}, kw \in forms, tid \in TicketIds \ issued,
     claim \in codes :
    /\ procs[p].pc = "idle"
    /\ Goto(p, [Idle EXCEPT !.op = "save_ticket", !.store = store, !.pc = "called",
                            !.kw = kw, !.id = tid, !.code = claim])
    /\ issued' = issued \cup {tid}
    /\ born' = (tid :> [actor |-> kw.actor, from |-> now, to |-> now]) @@ born
    /\ UNCHANGED <<sql_tickets, sql_history, sql_labels, sql_dirs, sql_lock, sql_ret,
                   fs_dirs, fs_meta, fs_ret, now, call, sql_log, fs_log, att>>

\* a caller calls update_status(ticket_id, status, note=note, actor=actor) of one of
\* the stores, for a ticket the store holds
BeginUpdate(args) ==
  \E p \in Procs, store \in {"sql", "fs"}, ticket_id \in TicketIds, a \in args :
    /\ procs[p].pc = "idle"
    /\ UpdatesDone + InFlightUpdates < MaxUpdates
    /\ ticket_id \in (IF store = "sql" THEN SqlIds ELSE FsIds)
    /\ Goto(p, [Idle EXCEPT !.op = "update_status", !.store = store, !.pc = "called",
                            !.id = ticket_id, !.status = a.status, !.note = a.note,
                            !.actor = a.actor])
    /\ UNCHANGED <<sql_tickets, sql_history, sql_labels, sql_dirs, sql_lock, sql_ret,
                   fs_dirs, fs_meta, fs_ret, now, issued, call, born, sql_log, fs_log, att>>

\* the caller has its answer and is free for the next call; the connection of a
\* call that raised lives on in the traceback until it is collected
Return ==
  \E p \in Procs :
    /\ procs[p].pc \in {"done", "raised"}
    /\ ~procs[p].conn.holds
    /\ Goto(p, Idle)
    /\ UNCHANGED <<sql_tickets, sql_history, sql_labels, sql_dirs, sql_lock, sql_ret,
                   fs_dirs, fs_meta, fs_ret, now, issued, call, born, sql_log, fs_log, att>>

(***************************************************************************)
(* services/storage_sqlite.py, statement by statement                      *)
(***************************************************************************)
\* variant of save_ticket on a connection that commits each statement
\* (isolation_level=None)
sql_save_ticket_insert_autocommit(p) ==
  LET c == procs[p]
      row == [id |-> c.id, claim_code |-> c.code, name |-> c.kw.name,
              email |-> c.kw.email, phone |-> c.kw.phone,
              device_type |-> c.kw.device_type, brand |-> c.kw.brand,
              model |-> c.kw.model, serial |-> c.kw.serial,
              accessories |-> c.kw.accessories, description |-> c.kw.description,
              status |-> ST_new, created_at |-> now, updated_at |-> now]
  IN  /\ c.op = "save_ticket" /\ c.store = "sql" /\ c.pc = "called"
      /\ IF sql_lock
         THEN /\ Raise(p, "OperationalError")
              /\ UNCHANGED <<sql_tickets, sql_lock>>
         ELSE IF \E i \in DOMAIN sql_tickets :
                   sql_tickets[i].id = c.id \/ sql_tickets[i].claim_code = c.code
         THEN /\ Raise(p, "IntegrityError")
              /\ UNCHANGED <<sql_tickets, sql_lock>>
         ELSE /\ sql_tickets' = Append(sql_tickets, row)
              /\ sql_lock' = TRUE
              /\ Goto(p, [c EXCEPT !.pc = "inserted",
                            !.conn = [NoConn EXCEPT !.holds = TRUE,
                                        !.history = << [ticket_id |-> c.id, at |-> now,
                                                        status |-> ST_new, note |-> EMPTY,
                                                        by_actor |-> c.kw.actor] >>]])
      /\ UNCHANGED <<sql_history, sql_labels, sql_dirs>>

\* save_ticket, the two INSERT statements: the first takes the write lock; a
\* second ticket of the same id or claim code violates PRIMARY KEY or UNIQUE and the
\* call raises with its transaction open
sql_save_ticket_insert(p) ==
  LET c == procs[p]
      row == [id |-> c.id, claim_code |-> c.code, name |-> c.kw.name,
              email |-> c.kw.email, phone |-> c.kw.phone,
              device_type |-> c.kw.device_type, brand |-> c.kw.brand,
              model |-> c.kw.model, serial |-> c.kw.serial,
              accessories |-> c.kw.accessories, description |-> c.kw.description,
              status |-> ST_new, created_at |-> now, updated_at |-> now]
      hrow == [ticket_id |-> c.id, at |-> now, status |-> ST_new, note |-> EMPTY,
               by_actor |-> c.kw.actor]
  IN  /\ c.op = "save_ticket" /\ c.store = "sql" /\ c.pc = "called"
      /\ IF sql_lock
         THEN /\ Raise(p, "OperationalError")
              /\ UNCHANGED sql_lock
         ELSE /\ sql_lock' = TRUE
              /\ IF \E i \in DOMAIN sql_tickets :
                      sql_tickets[i].id = c.id \/ sql_tickets[i].claim_code = c.code
                 THEN Goto(p, [c EXCEPT !.pc = "raised", !.ret = Raised("IntegrityError"),
                                 !.conn = [NoConn EXCEPT !.holds = TRUE]])
                 ELSE Goto(p, [c EXCEPT !.pc = "inserted",
                                 !.conn = [NoConn EXCEPT !.holds = TRUE,
                                             !.tickets = <<row>>,
                                             !.history = <<hrow>>]])
      /\ UNCHANGED <<sql_tickets, sql_history, sql_labels, sql_dirs>>

\* conn.commit(): the rows pending in the connection reach the tables and the write
\* lock is released
sql_commit(conn) ==
  /\ sql_tickets' =
       [i \in 1..(Len(sql_tickets) + Len(conn.tickets)) |->
          IF i > Len(sql_tickets) THEN conn.tickets[i - Len(sql_tickets)]
          ELSE IF \E k \in DOMAIN conn.updates : conn.updates[k].id = sql_tickets[i].id
          THEN LET u == conn.updates[CHOOSE k \in DOMAIN conn.updates :
                                       conn.updates[k].id = sql_tickets[i].id]
               IN  [sql_tickets[i] EXCEPT !.status = u.status,
                                          !.updated_at = u.updated_at]
          ELSE sql_tickets[i]]
  /\ sql_history' = sql_history \o conn.history
  /\ sql_lock' = FALSE

\* save_ticket, from the loop over the labels to the return: lbl.name raises
\* AttributeError for the first label, with the transaction open; without labels
\* the call commits, makes the attachment directory (the callers attach no file) and returns
sql_save_ticket_commit(p) ==
  LET c == procs[p]
  IN  /\ c.op = "save_ticket" /\ c.store = "sql" /\ c.pc = "inserted"
      /\ IF extract_labels(c.kw.description) # << >>
         THEN /\ Raise(p, "AttributeError")
              /\ UNCHANGED <<sql_tickets, sql_history, sql_dirs, sql_lock>>
         ELSE /\ sql_commit(c.conn)
              /\ sql_dirs' = sql_dirs \cup {c.id}
              /\ Goto(p, [c EXCEPT !.pc = "done", !.ret = Returned(c.id),
                            !.conn = NoConn])
      /\ UNCHANGED sql_labels

\* variant of update_status on a connection that commits each statement
\* (isolation_level=None)
sql_update_status_update_autocommit(p) ==
  LET c == procs[p]
      st == Strip(c.status)
  IN  /\ c.op = "update_status" /\ c.store = "sql" /\ c.pc = "called"
      /\ IF ~IsAllowedStatus(st)
         THEN /\ Raise(p, "ValueError")
              /\ UNCHANGED <<sql_tickets, sql_lock>>
         ELSE IF sql_lock
         THEN /\ Raise(p, "OperationalError")
              /\ UNCHANGED <<sql_tickets, sql_lock>>
         ELSE /\ sql_tickets' = [i \in DOMAIN sql_tickets |->
                                   IF sql_tickets[i].id = c.id
                                   THEN [sql_tickets[i] EXCEPT !.status = st,
                                                               !.updated_at = now]
                                   ELSE sql_tickets[i]]
              /\ sql_lock' = TRUE
              /\ Goto(p, [c EXCEPT !.pc = "updated",
                            !.conn = [NoConn EXCEPT !.holds = TRUE]])
      /\ UNCHANGED <<sql_history, sql_labels, sql_dirs>>

\* update_status, up to the UPDATE statement, which takes the write lock
sql_update_status_update(p) ==
  LET c == procs[p]
      st == Strip(c.status)
  IN  /\ c.op = "update_status" /\ c.store = "sql" /\ c.pc = "called"
      /\ IF ~IsAllowedStatus(st)
         THEN /\ Raise(p, "ValueError")
              /\ UNCHANGED sql_lock
         ELSE IF sql_lock
         THEN /\ Raise(p, "OperationalError")
              /\ UNCHANGED sql_lock
         ELSE /\ sql_lock' = TRUE
              /\ Goto(p, [c EXCEPT !.pc = "updated",
                            !.conn = [NoConn EXCEPT !.holds = TRUE,
                                        !.updates = << [id |-> c.id, status |-> st,
                                                        updated_at |-> now] >>]])
      /\ UNCHANGED <<sql_tickets, sql_history, sql_labels, sql_dirs>>

\* update_status, the INSERT INTO status_history: for an id no ticket has it
\* violates the foreign key and the call raises with its transaction open
sql_update_status_insert(p) ==
  LET c == procs[p]
      hrow == [ticket_id |-> c.id, at |-> c.conn.updates[1].updated_at,
               status |-> c.conn.updates[1].status, note |-> c.note,
               by_actor |-> c.actor]
  IN  /\ c.op = "update_status" /\ c.store = "sql" /\ c.pc = "updated"
      /\ IF c.id \notin SqlIds
         THEN Raise(p, "IntegrityError")
         ELSE Goto(p, [c EXCEPT !.pc = "inserted", !.conn.history = <<hrow>>])
      /\ UNCHANGED <<sql_tickets, sql_history, sql_labels, sql_dirs, sql_lock>>

\* update_status, from the commit to the return
sql_update_status_commit(p) ==
  LET c == procs[p]
  IN  /\ c.op = "update_status" /\ c.store = "sql" /\ c.pc = "inserted"
      /\ sql_commit(c.conn)
      /\ sql_dirs' = sql_dirs \cup {c.id}
      /\ Goto(p, [c EXCEPT !.pc = "done", !.ret = Returned(c.id), !.conn = NoConn])
      /\ UNCHANGED sql_labels

\* the connection of a call that raised is collected: sqlite3 closes it, which
\* rolls its transaction back and releases the write lock
sql_close_collected(p) ==
  LET c == procs[p]
  IN  /\ c.pc = "raised" /\ c.conn.holds
      /\ sql_lock' = FALSE
      /\ Goto(p, [c EXCEPT !.conn = NoConn])
      /\ UNCHANGED <<sql_tickets, sql_history, sql_labels, sql_dirs>>

(***************************************************************************)
(* services/storage.py, statement by statement                             *)
(***************************************************************************)
\* meta.json between the open() of write_text and its write
EmptyFile == [torn |-> "empty", size |-> 0]

\* meta.json holding the text of one writer followed by the end of a longer text of
\* another, size characters in all
Garbled(size) == [torn |-> "garbled", size |-> size]

\* json.loads() accepts what meta.json holds
Parses(data) == "torn" \notin DOMAIN data

\* the characters the history entries take in the text as_json() writes
RECURSIVE HistoryChars(_)
HistoryChars(h) ==
  IF h = << >> THEN 0
  ELSE 102 + Len(h[1].status) + Len(h[1].note) + Len(h[1].by) + HistoryChars(Tail(h))

\* the length of the text as_json() writes for a ticket, up to what all texts of
\* tickets of equal id, claim code and labels share
JsonChars(data) ==
  Len(data.name) + Len(data.email) + Len(data.phone) + Len(data.device_type)
    + Len(data.brand) + Len(data.model) + Len(data.serial) + Len(data.accessories)
    + Len(data.description) + Len(data.status) + HistoryChars(data.status_history)

FileChars(data) == IF Parses(data) THEN JsonChars(data) ELSE data.size

\* what the file holds after a writer that opened it earlier writes its text from
\* the start of the file: the text, followed by what the file held beyond its length
Overlay(held, data) ==
  IF FileChars(held) <= JsonChars(data) THEN data ELSE Garbled(FileChars(held))

\* save_ticket: the ticket has a new id, so that no other caller reads or writes
\* its meta.json during the call
fs_save_ticket_call(p) ==
  LET c == procs[p]
  IN  /\ c.op = "save_ticket" /\ c.store = "fs" /\ c.pc = "called"
      /\ fs_save_ticket(c.kw, c.id, c.code, now, now, now)
      /\ Goto(p, [c EXCEPT !.pc = IF fs_ret'.kind = "ok" THEN "done" ELSE "raised",
                           !.ret = fs_ret'])

\* update_status, up to t = load(ticket_id): meta.json is read as it is
fs_update_status_load(p) ==
  LET c == procs[p]
  IN  /\ c.op = "update_status" /\ c.store = "fs" /\ c.pc = "called"
      /\ IF ~IsAllowedStatus(c.status)
         THEN /\ Raise(p, "ValueError")
              /\ UNCHANGED fs_dirs
         ELSE /\ fs_dirs' = fs_dirs \cup {c.id}
              /\ IF c.id \notin FsIds
                 THEN Raise(p, "FileNotFoundError")
                 ELSE IF ~Parses(fs_meta[c.id])
                 THEN Raise(p, "JSONDecodeError")
                 ELSE Goto(p, [c EXCEPT !.pc = "loaded",
                                 !.t = ticket_from_json(fs_meta[c.id], c.id)])
      /\ UNCHANGED <<fs_meta, fs_ret>>

\* update_status, the assignments to the loaded ticket and the open() of
\* write_text, which empties meta.json
fs_update_status_open(p) ==
  LET c == procs[p]
      t == [c.t EXCEPT !.status = c.status,
                       !.updated_at = now,
                       !.status_history = Append(@,
                          [at |-> now, status |-> c.status, note |-> c.note,
                           by |-> c.actor])]
  IN  /\ c.op = "update_status" /\ c.store = "fs" /\ c.pc = "loaded"
      /\ fs_meta' = [fs_meta EXCEPT ![c.id] = EmptyFile]
      /\ Goto(p, [c EXCEPT !.pc = "opened", !.t = t])
      /\ UNCHANGED <<fs_dirs, fs_ret>>

\* update_status, the write of write_text and the return
fs_update_status_write(p) ==
  LET c == procs[p]
  IN  /\ c.op = "update_status" /\ c.store = "fs" /\ c.pc = "opened"
      /\ fs_meta' = [fs_meta EXCEPT ![c.id] = Overlay(@, as_json(c.t))]
      /\ Goto(p, [c EXCEPT !.pc = "done", !.ret = Returned(c.id)])
      /\ UNCHANGED <<fs_dirs, fs_ret>>

(***************************************************************************)
(* The steps of the callers.                                               *)
(***************************************************************************)
\* the arguments of the update_status call caller p is in
ArgsOf(p) == [status |-> procs[p].status, note |-> procs[p].note, actor |-> procs[p].actor]

\* a caller's call to the relational store executes its next statements
SqlStep ==
  \E p \in Procs :
    /\ \/ sql_save_ticket_insert(p) /\ UNCHANGED sql_log
       \/ sql_save_ticket_commit(p) /\ UNCHANGED sql_log
       \/ sql_update_status_update(p) /\ UNCHANGED sql_log
       \/ sql_update_status_insert(p) /\ UNCHANGED sql_log
       \/ /\ sql_update_status_commit(p)
          /\ sql_log' = [sql_log EXCEPT ![procs[p].id] = Append(@, ArgsOf(p))]
    /\ UNCHANGED <<sql_ret, fs_dirs, fs_meta, fs_ret, now, issued, call, born, fs_log, att>>

\* the connection a failed call left open is collected
SqlCollect ==
  \E p \in Procs :
    /\ sql_close_collected(p)
    /\ UNCHANGED <<sql_ret, fs_dirs, fs_meta, fs_ret, now, issued, call, born,
                   sql_log, fs_log, att>>

\* a caller's call to the file store executes its next statements
FsStep ==
  \E p \in Procs :
    /\ \/ fs_save_ticket_call(p) /\ UNCHANGED fs_log
       \/ fs_update_status_load(p) /\ UNCHANGED fs_log
       \/ fs_update_status_open(p) /\ UNCHANGED fs_log
       \/ /\ fs_update_status_write(p)
          /\ fs_log' = [fs_log EXCEPT ![procs[p].id] = Append(@, ArgsOf(p))]
    /\ UNCHANGED <<sql_tickets, sql_history, sql_labels, sql_dirs, sql_lock, sql_ret,
                   now, issued, call, born, sql_log, att>>

Init ==
  /\ sql_tickets = << >>
  /\ sql_history = << >>
  /\ sql_labels = << >>
  /\ sql_dirs = {}
  /\ sql_lock = FALSE
  /\ sql_ret = NoAnswer
  /\ fs_dirs = {}
  /\ fs_meta = << >>
  /\ fs_ret = NoAnswer
  /\ now = 0
  /\ issued = {}
  /\ call = Call("none")
  /\ born = << >>
  /\ sql_log = [i \in TicketIds |-> << >>]
  /\ fs_log = [i \in TicketIds |-> << >>]
  /\ procs = [p \in Procs |-> Idle]
  /\ att = NoFiles

(***************************************************************************)
(* Specifications.  Each gives the calls the inputs its claims are about.  *)
(*   SpecIntake : tickets are created from every kind of intake form, by   *)
(*                the stores and by the intake handler, while the clock    *)
(*                runs, also during a call                                 *)
(*   SpecHistory: tickets are created and updated while the clock runs,    *)
(*                interleaved with every other call of the store           *)
(*   SpecFirst  : tickets with and without labels are created while the    *)
(*                clock runs, also during the call, then updated and       *)
(*                reclassified                                             *)
(*   SpecStatus : the status of tickets is updated with every status       *)
(*                string, from every status                                *)
(*   SpecLabels : tickets with and without labels are created, their       *)
(*                stored description is changed from outside, and they are *)
(*                reclassified and loaded while the clock runs             *)
(*   SpecTouch  : tickets are created, their description is changed, and   *)
(*                they are updated and reclassified while the clock runs   *)
(*   SpecRead   : tickets are created while the clock runs and read back   *)
(*                by id, by claim code in either letter case, and as list  *)
(*   SpecExtract: the extractor is called once on each text of up to       *)
(*                MaxPhrases phrases                                       *)
(* In each of them but the last the connection a failed call of the        *)
(* relational store left open is collected at any time.                    *)
(***************************************************************************)
NextIntake ==
  \/ Tick
  \/ Collect
  \/ SaveTicket(Forms, ClaimCodes, 1)
  \/ Intake(Forms, ClaimCodes, 1)

SpecIntake == Init /\ [][NextIntake]_vars

\* the relational store takes a ticket only if its description holds no keyword
StatusForms == {FormBo}

\* update_status calls with and without a note, by two actors, and with a
\* status string no store accepts
HistoryCalls ==
  { [status |-> ST_received, note |-> EMPTY, actor |-> TECHNICIAN],
    [status |-> ST_completed, note |-> NOTE_wait, actor |-> FRONT_DESK],
    [status |-> ST_bogus, note |-> EMPTY, actor |-> TECHNICIAN] }

\* a claim code as a customer may type it: in lower case and padded
LookupCodes == { <<" ">> \o Lower(CHOOSE c \in ClaimCodes : TRUE) }

NextHistory ==
  \/ Tick
  \/ Collect
  \/ SaveTicket(StatusForms, ClaimCodes, 0)
  \/ UpdateStatus(HistoryCalls, 0)
  \/ Reclassify(0)
  \/ Load
  \/ ListAll
  \/ FindByClaim(LookupCodes)

SpecHistory == Init /\ [][NextHistory]_vars

\* tickets of either kind of description, created while the clock runs, updated
\* and reclassified
FirstForms == {FormAda, FormBo}

FirstCalls == { [status |-> ST_completed, note |-> NOTE_wait, actor |-> TECHNICIAN] }

NextFirst ==
  \/ Tick
  \/ Collect
  \/ SaveTicket(FirstForms, ClaimCodes, 1)
  \/ UpdateStatus(FirstCalls, 0)
  \/ Reclassify(0)

SpecFirst == Init /\ [][NextFirst]_vars

\* update_status calls with every status string
StatusCalls ==
  { [status |-> s, note |-> EMPTY, actor |-> TECHNICIAN] : s \in StatusInputs }

NextStatus ==
  \/ Collect
  \/ SaveTicket(StatusForms, ClaimCodes, 0)
  \/ UpdateStatus(StatusCalls, 0)

SpecStatus == Init /\ [][NextStatus]_vars

DESC_hot == <<"t","o","o"," ","h","o","t">>

DESC_quiet == <<"t","o","o"," ","q","u","i","e","t">>

\* descriptions a stored ticket is changed to: one with a keyword, one without
NewDescriptions == {DESC_hot, DESC_quiet}

NextLabels ==
  \/ Tick
  \/ Collect
  \/ SaveTicket(FirstForms, ClaimCodes, 0)
  \/ EditDescription(NewDescriptions)
  \/ Reclassify(1)
  \/ Load

SpecLabels == Init /\ [][NextLabels]_vars

\* tickets are created, their description is changed to one with a keyword, and
\* they are updated and reclassified
NextTouch ==
  \/ Tick
  \/ Collect
  \/ SaveTicket(StatusForms, ClaimCodes, 0)
  \/ EditDescription({DESC_hot})
  \/ Reclassify(0)
  \/ UpdateStatus(FirstCalls, 0)

SpecTouch == Init /\ [][NextTouch]_vars

\* a code no ticket gets
CODE_none == <<"Z","Z","Z","9","9","9","9">>

\* the codes find_by_claim is called with: as generated, in lower case, and one
\* that no ticket holds
ReadCodes == ClaimCodes \cup { Lower(c) : c \in ClaimCodes } \cup {CODE_none}

\* tickets are created while the clock runs and read back by id, by claim code
\* and as a list
NextRead ==
  \/ Tick
  \/ Collect
  \/ SaveTicket(StatusForms, ClaimCodes, 0)
  \/ Load
  \/ ListAll
  \/ FindByClaim(ReadCodes)

SpecRead == Init /\ [][NextRead]_vars

\* a text is at hand, the stores are empty
InitExtract ==
  /\ sql_tickets = << >>
  /\ sql_history = << >>
  /\ sql_labels = << >>
  /\ sql_dirs = {}
  /\ sql_lock = FALSE
  /\ sql_ret = NoAnswer
  /\ fs_dirs = {}
  /\ fs_meta = << >>
  /\ fs_ret = NoAnswer
  /\ now = 0
  /\ issued = {}
  /\ call \in { [Call("text") EXCEPT !.text = text] : text \in Texts }
  /\ born = << >>
  /\ sql_log = [i \in TicketIds |-> << >>]
  /\ fs_log = [i \in TicketIds |-> << >>]
  /\ procs = [p \in Procs |-> Idle]
  /\ att = NoFiles

\* the extractor is called with every text
NextExtract == Extract

SpecExtract == InitExtract /\ [][NextExtract]_vars

\* update_status calls that differ in the length of what they write
RaceCalls ==
  { [status |-> ST_received, note |-> EMPTY, actor |-> TECHNICIAN],
    [status |-> ST_completed, note |-> NOTE_wait, actor |-> FRONT_DESK] }

\* two callers create tickets with and without labels and update them, the
\* statements of their calls interleaved in every order
NextRace ==
  \/ BeginSave(FirstForms, ClaimCodes)
  \/ BeginUpdate(RaceCalls)
  \/ SqlStep
  \/ SqlCollect
  \/ FsStep
  \/ Return

SpecRace == Init /\ [][NextRace]_vars

\* complete intakes with every list of at most MaxFiles files
AttachForms == { [FormBo EXCEPT !.files = l] : l \in FileLists(MaxFiles) }

\* tickets are created with files of every shape and extension
NextAttach ==
  \/ Collect
  \/ SaveTicket(AttachForms, ClaimCodes, 0)

SpecAttach == Init /\ [][NextAttach]_vars

(***************************************************************************)
(* notify.py: the e-mail that tells a customer about a status change.     *)
(* One call of send_status_email is followed statement by statement; its  *)
(* position and locals are kept in `call`.  Waits are counted in tenths   *)
(* of a second.                                                            *)
(***************************************************************************)
\* the settings _smtp_config reads; EMPTY is a setting that is not set
Settings(port, user, pwd, timeout, disabled) ==
  [SMTP_HOST |-> EMPTY, SMTP_PORT |-> port, SMTP_USER |-> user, SMTP_PASS |-> pwd,
   SMTP_FROM |-> EMPTY, SMTP_STARTTLS |-> EMPTY, SMTP_TIMEOUT_SECONDS |-> timeout,
   SMTP_DISABLED |-> disabled]

\* _get(key, default): an empty setting counts as not set
get(env, key, default) == IF env[key] # EMPTY THEN env[key] ELSE default

\* _to_bool(value, default)
to_bool(value, default) ==
  IF value = EMPTY THEN default
  ELSE Lower(value) \in {<<"1">>, <<"t","r","u","e">>, <<"y","e","s">>, <<"o","n">>}

\* int(s) succeeds: digits, blanks around them allowed (signs and
\* underscores are not among the settings drawn here)
IsInt(s) == Strip(s) # EMPTY /\ \A i \in DOMAIN Strip(s) : Strip(s)[i] \in DigitSet

\* the value of a text of digits
RECURSIVE DigitsValue(_)
DigitsValue(s) ==
  IF s = EMPTY THEN 0
  ELSE 10 * DigitsValue(SubSeq(s, 1, Len(s) - 1)) + (IndexOf(s[Len(s)], Digits) - 1)

\* int(s) for a text int accepts
int(s) == DigitsValue(Strip(s))

NoCfg == [kind |-> "none"]

\* _smtp_config(): the configuration, or the ValueError of int()
smtp_config(env) ==
  LET host == get(env, "SMTP_HOST", <<"s","m","t","p",".","g","m","a","i","l",".","c","o","m">>)
      port_text == get(env, "SMTP_PORT", <<"5","8","7">>)
      user == get(env, "SMTP_USER", EMPTY)
      pwd == get(env, "SMTP_PASS", EMPTY)
      from_addr == get(env, "SMTP_FROM",
                       IF user # EMPTY
                       THEN <<"T","e","c","h"," ","S","e","r","v","i","c","e"," ","<">>
                            \o user \o <<">">>
                       ELSE EMPTY)
      timeout_text == get(env, "SMTP_TIMEOUT_SECONDS", <<"2","0">>)
  IN  IF ~IsInt(port_text) THEN [kind |-> "ValueError"]
      ELSE IF ~IsInt(timeout_text) THEN [kind |-> "ValueError"]
      ELSE LET port == int(port_text)
               disabled == to_bool(get(env, "SMTP_DISABLED", <<"0">>), FALSE)
               missing ==
                 (IF host = EMPTY THEN <<"SMTP_HOST">> ELSE << >>)
                 \o (IF port = 0 THEN <<"SMTP_PORT">> ELSE << >>)
                 \o (IF user = EMPTY THEN <<"SMTP_USER">> ELSE << >>)
                 \o (IF pwd = EMPTY THEN <<"SMTP_PASS">> ELSE << >>)
                 \o (IF from_addr = EMPTY THEN <<"SMTP_FROM">> ELSE << >>)
           IN  [kind |-> "cfg", HOST |-> host, PORT |-> port, USER |-> user, PASS |-> pwd,
                FROM |-> from_addr,
                USE_STARTTLS |-> to_bool(get(env, "SMTP_STARTTLS", EMPTY), port = 587),
                TIMEOUT |-> int(timeout_text), DISABLED |-> disabled,
                ERROR |-> IF missing # << >> /\ ~disabled THEN missing ELSE << >>]

\* `$` of EMAIL_RE also matches before a newline that ends the text
BeforeLastNewline(s) ==
  IF s # EMPTY /\ s[Len(s)] = "\n" THEN SubSeq(s, 1, Len(s) - 1) ELSE s

\* to_email and EMAIL_RE.match(to_email); the address is not stripped
recipient_ok(to_email) == to_email # EMPTY /\ MatchesEmailRe(BeforeLastNewline(to_email))

\* the loop of send_status_email runs for i = 1..attempts
attempts == 3

\* time.sleep(1.5 * i), in tenths of a second
backoff(i) == 15 * i

\* the exceptions the loop catches
TransportErrors == {"SMTPException", "timeout", "OSError"}

\* what one pass of the loop ends with: smtplib refuses a timeout of 0
\* with a ValueError before it connects; otherwise the server decides
Outcomes(cfg) == IF cfg.TIMEOUT = 0 THEN {"ValueError"} ELSE {"sent"} \cup TransportErrors

NoResult == [kind |-> "none"]

\* return ok, message
Reported(ok, message, detail) ==
  [kind |-> "returned", ok |-> ok, message |-> message, detail |-> detail]

\* an exception leaves send_status_email
Escaped(exc) == [kind |-> "raised", exc |-> exc]

\* a call of send_status_email about to start
NotifyCall(env, to_email) ==
  [op |-> "send_status_email", pc |-> "call", env |-> env, to_email |-> to_email,
   cfg |-> NoCfg, i |-> 0, made |-> 0, slept |-> << >>, last_exc |-> "None",
   ret |-> NoResult]

\* the settings and recipients a call is made with
PortTexts == {EMPTY, <<"4","6","5">>, <<"0">>, <<"a","b","c">>}

TimeoutTexts == {EMPTY, <<"0">>, <<"s","o","o","n">>}

DisabledTexts == {EMPTY, <<"1">>, <<"T","R","U","E">>, <<"2">>}

NotifySettings ==
  { Settings(port, user, pwd, timeout, disabled) :
      port \in PortTexts, user \in {EMPTY, <<"u","@","x",".","i","o">>},
      pwd \in {EMPTY, <<"p">>}, timeout \in TimeoutTexts, disabled \in DisabledTexts }

Recipients ==
  {EMPTY, <<"a","@","b">>, <<"a","@","b",".","c","o">>, <<"a","@","b",".","c","o","\n">>,
   <<"a"," ","b","@","c",".","d","e">>}

\* nothing but the call changes
NotifyFrame ==
  UNCHANGED <<sql_tickets, sql_history, sql_labels, sql_dirs, sql_lock, sql_ret,
              fs_dirs, fs_meta, fs_ret, now, issued, born, sql_log, fs_log, procs, att>>

NotifyAt(pc) == call.op = "send_status_email" /\ call.pc = pc

\* cfg = _smtp_config()
send_status_email_config ==
  /\ NotifyAt("call")
  /\ LET cfg == smtp_config(call.env)
     IN  call' = IF cfg.kind = "ValueError"
                 THEN [call EXCEPT !.pc = "done", !.ret = Escaped("ValueError")]
                 ELSE [call EXCEPT !.pc = "configured", !.cfg = cfg]
  /\ NotifyFrame

\* if cfg["DISABLED"]: print the preview, return True
send_status_email_preview ==
  /\ NotifyAt("configured")
  /\ call.cfg.DISABLED
  /\ call' = [call EXCEPT !.pc = "done",
                          !.ret = Reported(TRUE, "preview (SMTP_DISABLED=1)", << >>)]
  /\ NotifyFrame

\* if cfg["ERROR"]: return False, cfg["ERROR"]
send_status_email_not_configured ==
  /\ NotifyAt("configured")
  /\ ~call.cfg.DISABLED
  /\ call.cfg.ERROR # << >>
  /\ call' = [call EXCEPT !.pc = "done",
                          !.ret = Reported(FALSE, "Email not configured. Missing: ",
                                           call.cfg.ERROR)]
  /\ NotifyFrame

\* if not to_email or not EMAIL_RE.match(to_email): return False, ...
send_status_email_invalid_recipient ==
  /\ NotifyAt("configured")
  /\ ~call.cfg.DISABLED
  /\ call.cfg.ERROR = << >>
  /\ ~recipient_ok(call.to_email)
  /\ call' = [call EXCEPT !.pc = "done",
                          !.ret = Reported(FALSE, "Invalid recipient email: ", call.to_email)]
  /\ NotifyFrame

\* the message is built and the loop is entered with i = 1
send_status_email_compose ==
  /\ NotifyAt("configured")
  /\ ~call.cfg.DISABLED
  /\ call.cfg.ERROR = << >>
  /\ recipient_ok(call.to_email)
  /\ call' = [call EXCEPT !.pc = "attempt", !.i = 1]
  /\ NotifyFrame

\* variant of the loop that runs once more than `attempts`
send_status_email_attempt_once_more ==
  /\ NotifyAt("attempt")
  /\ \E outcome \in Outcomes(call.cfg) :
       call' =
         IF outcome = "sent"
         THEN [call EXCEPT !.made = @ + 1, !.pc = "done",
                           !.ret = Reported(TRUE, "sent", << >>)]
         ELSE IF outcome \notin TransportErrors
         THEN [call EXCEPT !.made = @ + 1, !.pc = "done", !.ret = Escaped(outcome)]
         ELSE IF call.i < attempts + 1
         THEN [call EXCEPT !.made = @ + 1, !.last_exc = outcome, !.pc = "sleep"]
         ELSE [call EXCEPT !.made = @ + 1, !.last_exc = outcome, !.pc = "done",
                           !.ret = Reported(FALSE, "send failed: ", <<outcome>>)]
  /\ NotifyFrame

\* one pass of the loop: connect, log in, send; return True, "sent", or
\* catch a transport error and sleep or leave the loop
send_status_email_attempt ==
  /\ NotifyAt("attempt")
  /\ \E outcome \in Outcomes(call.cfg) :
       call' =
         IF outcome = "sent"
         THEN [call EXCEPT !.made = @ + 1, !.pc = "done",
                           !.ret = Reported(TRUE, "sent", << >>)]
         ELSE IF outcome \notin TransportErrors
         THEN [call EXCEPT !.made = @ + 1, !.pc = "done", !.ret = Escaped(outcome)]
         ELSE IF call.i < attempts
         THEN [call EXCEPT !.made = @ + 1, !.last_exc = outcome, !.pc = "sleep"]
         ELSE [call EXCEPT !.made = @ + 1, !.last_exc = outcome, !.pc = "done",
                           !.ret = Reported(FALSE, "send failed: ", <<outcome>>)]
  /\ NotifyFrame

\* time.sleep(1.5 * i), then the next pass
send_status_email_sleep ==
  /\ NotifyAt("sleep")
  /\ call' = [call EXCEPT !.slept = Append(@, backoff(call.i)), !.i = @ + 1,
                          !.pc = "attempt"]
  /\ NotifyFrame

\* the stores are empty, a call of send_status_email is about to start
InitNotify ==
  /\ sql_tickets = << >>
  /\ sql_history = << >>
  /\ sql_labels = << >>
  /\ sql_dirs = {}
  /\ sql_lock = FALSE
  /\ sql_ret = NoAnswer
  /\ fs_dirs = {}
  /\ fs_meta = << >>
  /\ fs_ret = NoAnswer
  /\ now = 0
  /\ issued = {}
  /\ call \in { NotifyCall(env, to_email) : env \in NotifySettings, to_email \in Recipients }
  /\ born = << >>
  /\ sql_log = [i \in TicketIds |-> << >>]
  /\ fs_log = [i \in TicketIds |-> << >>]
  /\ procs = [p \in Procs |-> Idle]
  /\ att = NoFiles

NextNotify ==
  \/ send_status_email_config
  \/ send_status_email_preview
  \/ send_status_email_not_configured
  \/ send_status_email_invalid_recipient
  \/ send_status_email_compose
  \/ send_status_email_attempt
  \/ send_status_email_sleep

SpecNotify == InitNotify /\ [][NextNotify]_vars

\* the call is sequential code: every statement that can run does run, a
\* connection ends by its timeout and a sleep ends
SpecNotifyLive == InitNotify /\ [][NextNotify]_vars /\ WF_vars(NextNotify)

(***************************************************************************)
(* What the stores hold, as a caller reads it back.                        *)
(***************************************************************************)
\* the tickets load(tid) of the relational store may return
SqlLoad(tid) == sql_row_to_ticket(SqlRow(tid))

\* the ticket load(tid) of the file store returns
FsLoad(tid) == ticket_from_json(fs_meta[tid], tid)

Last(q) == q[Len(q)]

\* a history entry carries the status, note and actor of an update_status call
Carries(entry, a) ==
  /\ entry.status = Strip(a.status)
  /\ entry.note = a.note
  /\ entry.by = a.actor

(***************************************************************************)
(* C1.  Every accepted update_status call appends exactly one entry at the *)
(* end of the ticket's status_history, carrying the status, note and actor *)
(* of the call, and leaves the earlier entries as they were; every other   *)
(* call leaves the history as it was; so after n accepted updates the      *)
(* history has n + 1 entries.  In both stores.                             *)
(***************************************************************************)
C1_SqlStep ==
  /\ \A id \in SqlIds :
       LET h == sql_select_history(id)
           h2 == sql_select_history(id)'
       IN  IF sql_log'[id] # sql_log[id]
           THEN /\ Len(h2) = Len(h) + 1
                /\ SubSeq(h2, 1, Len(h)) = h
                /\ Carries(Last(h2), Last(sql_log'[id]))
           ELSE h2 = h
  /\ \A id \in SqlIds' : Len(sql_select_history(id)') = Len(sql_log'[id]) + 1

C1_FsStep ==
  /\ \A id \in FsIds :
       LET h == FsLoad(id).status_history
           h2 == FsLoad(id).status_history'
       IN  IF fs_log'[id] # fs_log[id]
           THEN /\ Len(h2) = Len(h) + 1
                /\ SubSeq(h2, 1, Len(h)) = h
                /\ Carries(Last(h2), Last(fs_log'[id]))
           ELSE h2 = h
  /\ \A id \in FsIds' : Len(FsLoad(id).status_history') = Len(fs_log'[id]) + 1

C1_HistoryGrowsByOne == [][C1_SqlStep /\ C1_FsStep]_vars

\* a ticket updated twice in both stores, with another call made since
C1_Witness ==
  \E id \in SqlIds \cap FsIds :
    /\ Len(sql_log[id]) = 2 /\ Len(sql_select_history(id)) = 3
    /\ Len(fs_log[id]) = 2 /\ Len(FsLoad(id).status_history) = 3
    /\ call.op = "reclassify" /\ call.id = id

(***************************************************************************)
(* C2.  In every reachable state of both stores the status of every ticket *)
(* and of every entry of its status_history is one of ALLOWED_STATUSES,    *)
(* whatever status strings update_status was called with.                  *)
(***************************************************************************)
C2_StatusInEnumeration ==
  /\ \A id \in SqlIds :
       /\ SqlRow(id).status \in AllowedSet
       /\ \A t \in SqlLoad(id) :
            /\ t.status \in AllowedSet
            /\ \A k \in DOMAIN t.status_history : t.status_history[k].status \in AllowedSet
  /\ \A id \in FsIds :
       /\ FsLoad(id).status \in AllowedSet
       /\ \A k \in DOMAIN FsLoad(id).status_history :
            FsLoad(id).status_history[k].status \in AllowedSet

\* a ticket updated twice, the second time with a status that is no member of the
\* enumeration as passed, which one store took and the other refused
C2_Witness ==
  /\ call.op = "update_status"
  /\ call.status \notin AllowedSet
  /\ call.id \in SqlIds \cap FsIds
  /\ sql_ret = Returned(call.id) /\ fs_ret = Raised("ValueError")
  /\ Len(sql_select_history(call.id)) = 3
  /\ Len(FsLoad(call.id).status_history) = 2

(***************************************************************************)
(* C3.  From its creation on, a ticket's status_history is not empty and   *)
(* its first entry has status `new`, the actor passed to save_ticket and a *)
(* timestamp read during that call (in the relational store the ticket's   *)
(* created_at; in the file store a reading not after created_at); no later *)
(* update_status or reclassify changes it.                                 *)
(***************************************************************************)
C3_CreationEntry(e, id) ==
  /\ e.status = ST_new
  /\ e.by = born[id].actor
  /\ e.at \in born[id].from .. born[id].to

C3_FirstEntry ==
  /\ \A id \in SqlIds :
       LET h == sql_select_history(id)
       IN  /\ Len(h) >= 1
           /\ C3_CreationEntry(h[1], id)
           /\ h[1].at = SqlRow(id).created_at
           /\ h[1].note = EMPTY
  /\ \A id \in FsIds :
       LET h == FsLoad(id).status_history
       IN  /\ Len(h) >= 1
           /\ C3_CreationEntry(h[1], id)
           /\ h[1].at <= FsLoad(id).created_at
           /\ h[1].note = NOTE_created

C3_FirstEntryIsCreation ==
  [][ /\ C3_FirstEntry'
      /\ \A id \in SqlIds : sql_select_history(id)'[1] = sql_select_history(id)[1]
      /\ \A id \in FsIds : FsLoad(id).status_history'[1] = FsLoad(id).status_history[1]
    ]_vars

\* a ticket whose creation saw the clock advance between the history entry and
\* created_at, updated twice since and reclassified last
C3_Witness ==
  /\ call.op = "reclassify"
  /\ call.id \in SqlIds \cap FsIds
  /\ Len(sql_select_history(call.id)) = 3
  /\ Len(FsLoad(call.id).status_history) = 3
  /\ FsLoad(call.id).status_history[1].at < FsLoad(call.id).created_at
  /\ FsLoad(call.id).updated_at = now

(***************************************************************************)
(* C9.  As claimed: update_status with a status that is no member of the   *)
(* enumeration raises ValueError in both stores, for every ticket id, and  *)
(* leaves the tickets and their histories as they were.                    *)
(***************************************************************************)
C9_Rejected ==
  /\ sql_ret' = Raised("ValueError")
  /\ fs_ret' = Raised("ValueError")
  /\ UNCHANGED <<sql_tickets, sql_history, sql_labels, fs_meta>>

C9_NonMemberRejected ==
  [][ (call'.op = "update_status" /\ call'.status \notin AllowedSet) => C9_Rejected ]_vars

(***************************************************************************)
(* C9, amended.  update_status with a status that, stripped of surrounding *)
(* whitespace, is no member of the enumeration raises ValueError in both   *)
(* stores, for every ticket id, and leaves the tickets and their histories *)
(* as they were.                                                           *)
(***************************************************************************)
C9_StrippedNonMemberRejected ==
  [][ (call'.op = "update_status" /\ Strip(call'.status) \notin AllowedSet)
        => C9_Rejected ]_vars

\* a ticket that was updated once, and an unknown status just refused for it
C9_Witness ==
  /\ call.op = "update_status"
  /\ call.status = ST_bogus
  /\ call.id \in SqlIds \cap FsIds
  /\ sql_ret = Raised("ValueError") /\ fs_ret = Raised("ValueError")
  /\ Len(sql_select_history(call.id)) = 2
  /\ SqlRow(call.id).status = ST_ready

(***************************************************************************)
(* C10.  update_status enforces no order: for an existing ticket, whatever *)
(* its status, a call with a member of the enumeration succeeds in both    *)
(* stores and makes that member the ticket's status.                       *)
(***************************************************************************)
C10_Succeeds(id) ==
  /\ sql_ret' = Returned(id)
  /\ fs_ret' = Returned(id)
  /\ SqlRow(id)'.status = call'.status
  /\ FsLoad(id)'.status = call'.status
  /\ \A t \in SqlLoad(id)' : t.status = call'.status

C10_AnyTransition ==
  [][ \A id \in SqlIds \cap FsIds :
        (call'.op = "update_status" /\ call'.id = id /\ call'.status \in AllowedSet)
          => C10_Succeeds(id) ]_vars

\* C10 where no failed call's connection holds the write lock: every transition
\* succeeds; and where one does, the relational store refuses every transition
\* alike, with OperationalError, and the file store makes it
C10_AnyTransitionUnlessLocked ==
  [][ \A id \in SqlIds \cap FsIds :
        (call'.op = "update_status" /\ call'.id = id /\ call'.status \in AllowedSet)
          => IF sql_lock
             THEN /\ sql_ret' = Raised("OperationalError")
                  /\ UNCHANGED <<sql_tickets, sql_history>>
                  /\ fs_ret' = Returned(id)
                  /\ FsLoad(id)'.status = call'.status
             ELSE C10_Succeeds(id) ]_vars

\* a completed ticket reopened as new
C10_Reopened ==
  \E id \in SqlIds \cap FsIds :
    /\ call.op = "update_status" /\ call.id = id
    /\ Len(sql_log[id]) = 2 /\ Len(fs_log[id]) = 2
    /\ sql_log[id][1].status = ST_completed /\ sql_log[id][2].status = ST_new
    /\ SqlRow(id).status = ST_new /\ FsLoad(id).status = ST_new

(***************************************************************************)
(* The calls that create a ticket, as the claims about creation read them. *)
(***************************************************************************)
\* the last call was create_ticket(**kw), made directly or by the intake handler
CreateCalled ==
  \/ call.op = "save_ticket"
  \/ call.op = "intake" /\ call.errs = {}

\* name with two tokens or more, non-empty email, non-empty description
ValidInput(kw) ==
  /\ SplitCount(kw.name) >= 2
  /\ Strip(kw.email) # EMPTY
  /\ Strip(kw.description) # EMPTY

\* name with fewer than two tokens, or empty or whitespace-only email
InvalidNameOrEmail(kw) == SplitCount(kw.name) < 2 \/ Strip(kw.email) = EMPTY

\* two-token name and non-empty email that is not of the form local@domain.tld
MalformedEmail(kw) ==
  /\ SplitCount(kw.name) >= 2
  /\ Strip(kw.email) # EMPTY
  /\ ~MatchesEmailRe(Strip(kw.email))

\* the ticket of the relational store as loaded has the status, history and labels
\* of a ticket just created from kw
NewTicketOf(id, kw) ==
  LET lbls == extract_labels(kw.description)
  IN  /\ id \in SqlIds
      /\ \A t \in SqlLoad(id) :
           /\ t.status = ST_new
           /\ Len(t.status_history) = 1
           /\ Len(t.labels) = Len(lbls)
           /\ Range(t.labels) = Range(lbls)

\* a stored ticket other than the one of the last call holds the code the
\* generator gave the last call
CodeCollided ==
  \E i \in DOMAIN sql_tickets :
    sql_tickets[i].id # call.id /\ sql_tickets[i].claim_code = call.code

(***************************************************************************)
(* C4.  For every valid input create_ticket returns an id, and load(id)    *)
(* gives a ticket with status `new`, one history entry and the labels of   *)
(* extract_labels(description): the same names, scores and sources.        *)
(***************************************************************************)
C4_CreateReturnsNewTicket ==
  (CreateCalled /\ ValidInput(call.kw))
    => (sql_ret = Returned(call.id) /\ NewTicketOf(call.id, call.kw))

\* C4 on the calls that return: what create_ticket stored is the new ticket
C4_ReturnedIsNewTicket ==
  (CreateCalled /\ ValidInput(call.kw) /\ sql_ret.kind = "ok")
    => (sql_ret = Returned(call.id) /\ NewTicketOf(call.id, call.kw))

(***************************************************************************)
(* C5.  save_ticket with a name of fewer than two tokens, or with an empty *)
(* or whitespace-only email, raises ValueError in both stores and leaves   *)
(* what they hold as it was.                                               *)
(***************************************************************************)
C5_InvalidRejected ==
  [][ (call'.op = "save_ticket" /\ InvalidNameOrEmail(call'.kw))
        => /\ sql_ret' = Raised("ValueError")
           /\ fs_ret' = Raised("ValueError")
           /\ UNCHANGED <<sql_vars, fs_vars>> ]_vars

(***************************************************************************)
(* C6.  As claimed: save_ticket with a two-token name and a non-empty      *)
(* email that is not of the form local@domain.tld raises ValueError in     *)
(* both stores and creates no ticket record.                               *)
(***************************************************************************)
C6_StoreRejectsMalformedEmail ==
  [][ (call'.op = "save_ticket" /\ MalformedEmail(call'.kw))
        => /\ sql_ret' = Raised("ValueError")
           /\ fs_ret' = Raised("ValueError")
           /\ UNCHANGED <<sql_vars, fs_vars>> ]_vars

(***************************************************************************)
(* C6, amended.  The submit handler of the intake form, given a two-token  *)
(* name and a non-empty email that is not of the form local@domain.tld,    *)
(* reports the email error and does not call create_ticket: no ticket      *)
(* record is created.                                                      *)
(***************************************************************************)
C6_IntakeRejectsMalformedEmail ==
  [][ (call'.op = "intake" /\ MalformedEmail(call'.kw))
        => /\ "email" \in call'.errs
           /\ sql_ret' = NoAnswer
           /\ issued' = issued
           /\ UNCHANGED <<sql_vars, fs_vars>> ]_vars

\* the handler has just refused "not-an-email", for the email alone, with a ticket
\* in store
C6_Witness ==
  /\ call.op = "intake"
  /\ call.kw = [FormBadEmail EXCEPT !.actor = FRONT_DESK]
  /\ call.errs = {"email"}
  /\ sql_ret = NoAnswer
  /\ SqlIds # {}
  /\ \A id \in SqlIds : SqlRow(id).email # call.kw.email

(***************************************************************************)
(* C7.  In every reachable state of both stores no two tickets hold the    *)
(* same claim_code, compared without regard to case, whatever codes the    *)
(* generator returns.                                                      *)
(***************************************************************************)
C7_ClaimCodesUnique ==
  /\ \A i, j \in DOMAIN sql_tickets :
       i # j => Upper(sql_tickets[i].claim_code) # Upper(sql_tickets[j].claim_code)
  /\ \A i, j \in FsIds :
       i # j => Upper(fs_meta[i].claim_code) # Upper(fs_meta[j].claim_code)

(***************************************************************************)
(* C8.  When the generator returns a code that a stored ticket holds,      *)
(* create_ticket draws another: the call returns the id of a ticket whose  *)
(* claim_code no other ticket holds.                                       *)
(***************************************************************************)
C8_CollisionRedrawn ==
  (CreateCalled /\ ValidInput(call.kw) /\ CodeCollided)
    => /\ sql_ret = Returned(call.id)
       /\ call.id \in SqlIds
       /\ \A i \in DOMAIN sql_tickets :
            sql_tickets[i].id # call.id
              => sql_tickets[i].claim_code # SqlRow(call.id).claim_code

(***************************************************************************)
(* The labels a store holds for a ticket, as a set of (name, score,        *)
(* source).                                                                *)
(***************************************************************************)
SqlLabelSet(id) ==
  { [name |-> r.name, score |-> r.score, source |-> r.source] :
      r \in Range(RowsOf(sql_labels, id)) }

FsLabelSet(id) == Range(FsLoad(id).labels)

\* the last call was reclassify of a ticket both stores hold
ReclassifyCalled(id) == call.op = "reclassify" /\ call.id = id

(***************************************************************************)
(* C11.  reclassify(id) of a stored ticket succeeds in both stores and     *)
(* leaves the ticket with exactly the labels of extract_labels(d), d the   *)
(* description stored when the call was made: no other label stays.        *)
(***************************************************************************)
C11_ReclassifyRederives ==
  [][ \A id \in SqlIds \cup FsIds :
        ReclassifyCalled(id)' =>
          /\ id \in SqlIds =>
                /\ sql_ret' = Returned(id)
                /\ SqlLabelSet(id)' = Range(extract_labels(SqlRow(id).description))
          /\ id \in FsIds =>
                /\ fs_ret' = Returned(id)
                /\ FsLabelSet(id)' = Range(extract_labels(fs_meta[id].description)) ]_vars

\* C11 in the file store alone
C11_FsReclassifyRederives ==
  [][ \A id \in FsIds :
        ReclassifyCalled(id)' =>
          /\ fs_ret' = Returned(id)
          /\ FsLabelSet(id)' = Range(extract_labels(fs_meta[id].description)) ]_vars

\* the file store has just dropped a stale label: the ticket came with two labels,
\* its description was changed, and reclassify left the one label of the new text
C11_FsStaleDropped ==
  \E id \in FsIds :
    /\ ReclassifyCalled(id)
    /\ fs_ret = Returned(id)
    /\ fs_meta[id].description = DESC_hot
    /\ Cardinality(FsLabelSet(id)) = 1

(***************************************************************************)
(* C12.  reclassify(id) appends no status_history entry and changes no     *)
(* status: in both stores the history of every ticket and its status are   *)
(* after the call what they were before it, whether the call returns or    *)
(* raises.                                                                 *)
(***************************************************************************)
C12_ReclassifyKeepsHistory ==
  [][ call'.op = "reclassify" =>
        /\ sql_history' = sql_history
        /\ \A id \in SqlIds : id \in SqlIds' /\ SqlRow(id)'.status = SqlRow(id).status
        /\ \A id \in FsIds :
             /\ id \in FsIds'
             /\ fs_meta'[id].status_history = fs_meta[id].status_history
             /\ fs_meta'[id].status = fs_meta[id].status ]_vars

\* reclassify has just returned, in both stores, a ticket that was updated before:
\* two history entries, status completed
C12_Witness ==
  \E id \in SqlIds \cap FsIds :
    /\ ReclassifyCalled(id)
    /\ sql_ret = Returned(id) /\ fs_ret = Returned(id)
    /\ Len(sql_select_history(id)) = 2 /\ Len(FsLoad(id).status_history) = 2
    /\ SqlRow(id).status = ST_completed /\ FsLoad(id).status = ST_completed

(***************************************************************************)
(* The steps that are a call of reclassify, and what C13 asks of a step.   *)
(***************************************************************************)
ReclassifyStep == \E span \in 0..MaxClock : Reclassify(span)

\* the relational store has just accepted update_status(id, ...)
SqlUpdated(id) == sql_log'[id] # sql_log[id]

\* the relational store has just returned from reclassify(id)
SqlReclassified(id) == ReclassifyStep /\ call'.id = id /\ sql_ret' = Returned(id)

FsUpdated(id) == fs_log'[id] # fs_log[id]

FsReclassified(id) == ReclassifyStep /\ call'.id = id /\ fs_ret' = Returned(id)

\* no step changes the created_at of a stored ticket
C13_CreatedAtKept ==
  /\ \A id \in SqlIds : id \in SqlIds' /\ SqlRow(id)'.created_at = SqlRow(id).created_at
  /\ \A id \in FsIds : id \in FsIds' /\ fs_meta'[id].created_at = fs_meta[id].created_at

(***************************************************************************)
(* C13.  No call changes the created_at of a stored ticket, and every      *)
(* update_status and every reclassify that succeeds leaves the ticket's    *)
(* updated_at at a clock value of that call (the calls of this             *)
(* specification take no time: at the clock value of the call).            *)
(***************************************************************************)
C13_UpdatedAtFollowsMutations ==
  [][ /\ C13_CreatedAtKept
      /\ \A id \in SqlIds :
           (SqlUpdated(id) \/ SqlReclassified(id)) => SqlRow(id)'.updated_at \in now..now'
      /\ \A id \in FsIds :
           (FsUpdated(id) \/ FsReclassified(id)) => fs_meta'[id].updated_at \in now..now' ]_vars

\* C13 without the reclassify of the relational store
C13_ExceptSqlReclassify ==
  [][ /\ C13_CreatedAtKept
      /\ \A id \in SqlIds : SqlUpdated(id) => SqlRow(id)'.updated_at \in now..now'
      /\ \A id \in SqlIds : SqlReclassified(id) => SqlRow(id)'.updated_at = SqlRow(id).updated_at
      /\ \A id \in FsIds :
           (FsUpdated(id) \/ FsReclassified(id)) => fs_meta'[id].updated_at \in now..now' ]_vars

(***************************************************************************)
(* C14.  find_by_claim(c) returns the stored ticket whose claim_code       *)
(* equals c up to letter case, for every such ticket and c, and returns    *)
(* None, raising nothing, when no stored ticket has such a code.  In both  *)
(* stores.                                                                 *)
(***************************************************************************)
EqualUpToCase(a, b) == Upper(a) = Upper(b)

C14_FindByClaimIgnoresCase ==
  call.op = "find_by_claim" =>
    /\ \A id \in SqlIds :
         EqualUpToCase(SqlRow(id).claim_code, call.code) => sql_ret = Returned(id)
    /\ (\A id \in SqlIds : ~EqualUpToCase(SqlRow(id).claim_code, call.code))
         => sql_ret = ReturnedNone
    /\ \A id \in FsIds :
         EqualUpToCase(fs_meta[id].claim_code, call.code) => fs_ret = Returned(id)
    /\ (\A id \in FsIds : ~EqualUpToCase(fs_meta[id].claim_code, call.code))
         => fs_ret = ReturnedNone

\* C14 in the relational store, and in the file store for the codes one ticket holds
C14_FindsWhereCodesDiffer ==
  call.op = "find_by_claim" =>
    /\ \A id \in SqlIds :
         EqualUpToCase(SqlRow(id).claim_code, call.code) => sql_ret = Returned(id)
    /\ (\A id \in SqlIds : ~EqualUpToCase(SqlRow(id).claim_code, call.code))
         => sql_ret = ReturnedNone
    /\ \A id \in FsIds :
         (/\ EqualUpToCase(fs_meta[id].claim_code, call.code)
          /\ \A j \in FsIds \ {id} : fs_meta[j].claim_code # fs_meta[id].claim_code)
           => fs_ret = Returned(id)
    /\ (\A id \in FsIds : ~EqualUpToCase(fs_meta[id].claim_code, call.code))
         => fs_ret = ReturnedNone

(***************************************************************************)
(* C15.  list_all() returns every stored ticket once, the later created    *)
(* first, and of two tickets with the same created_at the one with the     *)
(* greater id first.  In both stores.                                      *)
(***************************************************************************)
\* l lists the tickets of ids once each, by created_at descending, then id descending
NewestFirst(l, ids, created) ==
  /\ Range(l) = ids
  /\ Len(l) = Cardinality(ids)
  /\ \A i, j \in DOMAIN l :
       i < j => \/ created[l[i]] > created[l[j]]
                \/ created[l[i]] = created[l[j]] /\ l[i] > l[j]

C15_ListNewestFirst ==
  call.op = "list_all" =>
    /\ \A l \in SqlListAll :
         NewestFirst(l, SqlIds, [id \in SqlIds |-> SqlRow(id).created_at])
    /\ NewestFirst(FsListAll, FsIds, [id \in FsIds |-> fs_meta[id].created_at])

\* C15 without the order of tickets of equal created_at in the relational store
C15_ListByCreatedAt ==
  call.op = "list_all" =>
    /\ \A l \in SqlListAll :
         /\ Range(l) = SqlIds /\ Len(l) = Cardinality(SqlIds)
         /\ \A i, j \in DOMAIN l : i < j => SqlRow(l[i]).created_at >= SqlRow(l[j]).created_at
    /\ NewestFirst(FsListAll, FsIds, [id \in FsIds |-> fs_meta[id].created_at])

(***************************************************************************)
(* C16.  load(id) raises FileNotFoundError for an id no stored ticket has  *)
(* and returns the ticket for an id save_ticket returned; a load that      *)
(* raises leaves the store with the tickets it had: no record and no       *)
(* ticket directory more.  In both stores.                                 *)
(***************************************************************************)
C16_LoadFoundOrNotFound ==
  [][ call'.op = "load" =>
        /\ IF call'.id \in SqlIds
           THEN sql_ret' = Returned(call'.id)
           ELSE /\ sql_ret' = Raised("FileNotFoundError")
                /\ UNCHANGED <<sql_tickets, sql_history, sql_labels, sql_dirs>>
        /\ IF call'.id \in FsIds
           THEN fs_ret' = Returned(call'.id)
           ELSE /\ fs_ret' = Raised("FileNotFoundError")
                /\ UNCHANGED <<fs_meta, fs_dirs>> ]_vars

\* C16 with the ticket directories of the file store left aside: a load that raises
\* adds no record, and no directory but that of the id asked for
C16_LoadAddsNoRecord ==
  [][ call'.op = "load" =>
        /\ IF call'.id \in SqlIds
           THEN sql_ret' = Returned(call'.id)
           ELSE /\ sql_ret' = Raised("FileNotFoundError")
                /\ UNCHANGED <<sql_tickets, sql_history, sql_labels, sql_dirs>>
        /\ IF call'.id \in FsIds
           THEN fs_ret' = Returned(call'.id)
           ELSE /\ fs_ret' = Raised("FileNotFoundError")
                /\ fs_meta' = fs_meta
                /\ fs_dirs' \subseteq fs_dirs \cup {call'.id} ]_vars

(***************************************************************************)
(* What the claims about the extractor say of a text and of the list       *)
(* extract_labels returned for it.                                         *)
(***************************************************************************)
ExtractCalled == call.op = "extract_labels"

\* the names of the labels of a list
Names(labels) == { labels[i].name : i \in DOMAIN labels }

\* s occurs in text at position p, letter case aside
OccursAt(s, text, p) ==
  /\ p + Len(s) - 1 <= Len(text)
  /\ \A i \in DOMAIN s : LowerChar(text[p + i - 1]) = LowerChar(s[i])

\* the occurrence of s at p is a whole word: no letter, digit or underscore of the
\* text touches it
WholeWordAt(s, text, p) ==
  /\ OccursAt(s, text, p)
  /\ p = 1 \/ ~IsWord(text[p - 1])
  /\ p + Len(s) > Len(text) \/ ~IsWord(text[p + Len(s)])

ContainsWord(s, text) == \E p \in DOMAIN text : WholeWordAt(s, text, p)

ContainsSubstring(s, text) == \E p \in DOMAIN text : OccursAt(s, text, p)

(***************************************************************************)
(* C17.  For every label of KEYWORDS and every synonym configured for it,  *)
(* a text that contains the synonym as a whole word gets the label; and a  *)
(* text that contains synonyms of a label only inside longer words does    *)
(* not get the label.                                                      *)
(***************************************************************************)
C17_WholeWordSynonymsMatch ==
  ExtractCalled =>
    \A k \in DOMAIN KEYWORDS :
      LET syn == Range(KEYWORDS[k].synonyms)
          L == KEYWORDS[k].canonical
      IN  /\ (\E x \in syn : ContainsWord(x, call.text)) => L \in Names(call.labels)
          /\ (/\ \E x \in syn : ContainsSubstring(x, call.text)
              /\ \A x \in syn : ~ContainsWord(x, call.text)) => L \notin Names(call.labels)

\* C17 for the synonyms without an apostrophe
C17_PlainSynonymsMatch ==
  ExtractCalled =>
    \A k \in DOMAIN KEYWORDS :
      LET syn == { x \in Range(KEYWORDS[k].synonyms) : "'" \notin Range(x) }
          L == KEYWORDS[k].canonical
      IN  /\ (\E x \in syn : ContainsWord(x, call.text)) => L \in Names(call.labels)
          /\ (/\ \E x \in syn : ContainsSubstring(x, call.text)
              /\ \A x \in syn : ~ContainsWord(x, call.text)) => L \notin Names(call.labels)

(***************************************************************************)
(* C18.  extract_labels("Battery won't charge and overheating") returns    *)
(* overheating with score 1.0 and then battery issue with score 0.85.      *)
(***************************************************************************)
C18_BatteryWontCharge ==
  (ExtractCalled /\ call.text = TEXT_battery) =>
    call.labels =
      << [name |-> KEYWORDS[4].canonical, score |-> 100, source |-> RULES],
         [name |-> KEYWORDS[3].canonical, score |-> 85, source |-> RULES] >>

(***************************************************************************)
(* C19.  For every text, extract_labels returns a label of KEYWORDS at     *)
(* most once; its score is 1.0 exactly when its canonical phrase matched   *)
(* and 0.85 when only other synonyms of it matched; the list is by score   *)
(* descending, then by name ascending; every source is "rules"; and a      *)
(* second call with the text returns the same list.                        *)
(***************************************************************************)
\* the synonym matches the text as the extractor matches
Matched(s, text) == SearchWord(s, Normalize(text))

C19_ScoresAndOrder ==
  ExtractCalled =>
    LET l == call.labels
    IN  /\ \A i, j \in DOMAIN l : i # j => l[i].name # l[j].name
        /\ \A i \in DOMAIN l :
             \E k \in DOMAIN KEYWORDS :
               LET others == Range(KEYWORDS[k].synonyms) \ {KEYWORDS[k].canonical}
               IN  /\ l[i].name = KEYWORDS[k].canonical
                   /\ l[i].score = 100 <=> Matched(KEYWORDS[k].canonical, call.text)
                   /\ l[i].score = 85 <=>
                        /\ ~Matched(KEYWORDS[k].canonical, call.text)
                        /\ \E x \in others : Matched(x, call.text)
                   /\ l[i].score \in {100, 85}
                   /\ l[i].source = RULES
        /\ \A i, j \in DOMAIN l :
             i < j => \/ l[i].score > l[j].score
                      \/ l[i].score = l[j].score /\ StrLess(l[i].name, l[j].name)
        /\ l = extract_labels(call.text)

\* "overheating overheat No Sound,": overheating matched by its canonical phrase
\* and by a synonym, no sound by its canonical phrase; equal scores, by name
C19_Witness ==
  /\ ExtractCalled
  /\ call.text = Phrases[4] \o <<" ">> \o Phrases[5] \o <<" ">> \o Phrases[9]
  /\ call.labels =
       << [name |-> KEYWORDS[5].canonical, score |-> 100, source |-> RULES],
          [name |-> KEYWORDS[4].canonical, score |-> 100, source |-> RULES] >>

(***************************************************************************)
(* C20.  In every reachable state of both stores, whatever save_ticket and *)
(* reclassify calls were made, every label stored for a ticket has a key   *)
(* of KEYWORDS as its name and no ticket has two labels of one name.       *)
(***************************************************************************)
Vocabulary == { KEYWORDS[k].canonical : k \in DOMAIN KEYWORDS }

\* the names of a list of labels are keys of KEYWORDS, each at most once
CanonicalOnce(labels) ==
  /\ Names(labels) \subseteq Vocabulary
  /\ \A i, j \in DOMAIN labels : i # j => labels[i].name # labels[j].name

C20_LabelsCanonicalAndUnique ==
  /\ \A id \in SqlIds : CanonicalOnce(RowsOf(sql_labels, id))
  /\ \A i \in DOMAIN sql_labels : sql_labels[i].ticket_id \in SqlIds
  /\ \A id \in FsIds : CanonicalOnce(fs_meta[id].labels)

\* a ticket that came with two labels has just been reclassified, later than it
\* was created, and holds the two labels
C20_Witness ==
  \E id \in FsIds :
    /\ ReclassifyCalled(id)
    /\ fs_ret = Returned(id)
    /\ Len(fs_meta[id].labels) = 2
    /\ fs_meta[id].updated_at > fs_meta[id].created_at

(***************************************************************************)
(* What a store holds of a ticket, read back.                              *)
(***************************************************************************)
\* the customer and device fields of ticket t are those of kw
CarriesFields(t, kw) ==
  /\ t.name = kw.name /\ t.email = kw.email /\ t.phone = kw.phone
  /\ t.device_type = kw.device_type /\ t.brand = kw.brand /\ t.model = kw.model
  /\ t.serial = kw.serial /\ t.accessories = kw.accessories
  /\ t.description = kw.description

\* the form with every field stripped, as storage.save_ticket keeps it
StrippedForm(kw) ==
  [kw EXCEPT !.name = Strip(@), !.email = Strip(@), !.phone = Strip(@),
             !.device_type = Strip(@), !.brand = Strip(@), !.model = Strip(@),
             !.serial = Strip(@), !.accessories = Strip(@), !.description = Strip(@)]

\* ticket t read back is the ticket save_ticket(**kw) persisted under id and code:
\* every field, the labels in the order of extract_labels, the one history entry
ReadsBackAs(t, kw, id, code) ==
  /\ t.id = id /\ t.claim_code = code
  /\ CarriesFields(t, kw)
  /\ t.status = ST_new
  /\ Len(t.status_history) = 1
  /\ t.status_history[1].status = ST_new
  /\ t.status_history[1].by = kw.actor
  /\ t.labels = extract_labels(kw.description)
  /\ t.created_at \in born[id].from..born[id].to
  /\ t.updated_at \in born[id].from..born[id].to

(***************************************************************************)
(* C21.  Every valid ticket persisted and read back is the same ticket in  *)
(* every persisted field: through as_json and load in the file store,      *)
(* through the rows and _row_to_ticket in the relational store, with the   *)
(* labels in the same order (descending score, then name) and the history  *)
(* in insertion order.                                                     *)
(***************************************************************************)
C21_PersistedReadsBack ==
  (call.op = "save_ticket" /\ ValidInput(call.kw))
    => /\ fs_ret = Returned(call.id)
       /\ call.id \in FsIds
       /\ ReadsBackAs(FsLoad(call.id), StrippedForm(call.kw), call.id, call.code)
       /\ sql_ret = Returned(call.id)
       /\ call.id \in SqlIds
       /\ \A t \in SqlLoad(call.id) : ReadsBackAs(t, call.kw, call.id, call.code)

\* C21 in the file store: as_json and load give the ticket back
C21_FileStoreReadsBack ==
  (call.op = "save_ticket" /\ ValidInput(call.kw))
    => /\ fs_ret = Returned(call.id)
       /\ call.id \in FsIds
       /\ ReadsBackAs(FsLoad(call.id), StrippedForm(call.kw), call.id, call.code)

\* C21 in the relational store on the calls that return: the rows give the
\* ticket back
C21_RowsReadBack ==
  (call.op = "save_ticket" /\ ValidInput(call.kw) /\ sql_ret.kind = "ok")
    => /\ call.id \in SqlIds
       /\ \A t \in SqlLoad(call.id) : ReadsBackAs(t, call.kw, call.id, call.code)

\* a ticket with two labels was persisted and read back from the file store
C21_Witness ==
  /\ call.op = "save_ticket" /\ ValidInput(call.kw)
  /\ call.id \in FsIds
  /\ Len(FsLoad(call.id).labels) = 2

(***************************************************************************)
(* C26.  update_status with an allowed status and an id no ticket has      *)
(* fails with the not-found error (FileNotFoundError) in both stores and   *)
(* leaves what they hold as it was: no history entry, no ticket record.    *)
(***************************************************************************)
C26_UnknownIdNotFound ==
  [][ (call'.op = "update_status" /\ IsAllowedStatus(call'.status))
        => /\ call'.id \notin SqlIds
                => (sql_ret' = Raised("FileNotFoundError") /\ UNCHANGED sql_vars)
           /\ call'.id \notin FsIds
                => (fs_ret' = Raised("FileNotFoundError") /\ UNCHANGED fs_vars) ]_vars

\* C26 without the kind of error and the directories: the call for an unknown
\* id fails in both stores and adds no row and no meta.json
C26_UnknownIdAddsNoRecord ==
  [][ (call'.op = "update_status" /\ IsAllowedStatus(call'.status))
        => /\ call'.id \notin SqlIds
                => /\ sql_ret'.kind \notin {"ok", "None", "none"}
                   /\ UNCHANGED <<sql_tickets, sql_history, sql_labels>>
           /\ call'.id \notin FsIds
                => /\ fs_ret' = Raised("FileNotFoundError")
                   /\ UNCHANGED fs_meta ]_vars

\* C26 in the file store alone
C26_FileStoreNotFound ==
  [][ (call'.op = "update_status" /\ IsAllowedStatus(call'.status)
         /\ call'.id \notin FsIds)
        => (fs_ret' = Raised("FileNotFoundError") /\ UNCHANGED fs_vars) ]_vars

\* C26 in the relational store alone
C26_RelationalStoreNotFound ==
  [][ (call'.op = "update_status" /\ IsAllowedStatus(call'.status)
         /\ call'.id \notin SqlIds)
        => (sql_ret' = Raised("FileNotFoundError") /\ UNCHANGED sql_vars) ]_vars

(***************************************************************************)
(* C30.  A successful update_status changes only the status, updated_at    *)
(* and the status history (one entry appended) of its ticket: its id,      *)
(* claim code, customer and device fields, description, labels and         *)
(* created_at, and every field of every other ticket, are as they were.    *)
(***************************************************************************)
\* the fields of a ticket that update_status has no business with
FrameOf(t) ==
  [id |-> t.id, claim_code |-> t.claim_code, name |-> t.name, email |-> t.email,
   phone |-> t.phone, device_type |-> t.device_type, brand |-> t.brand,
   model |-> t.model, serial |-> t.serial, accessories |-> t.accessories,
   description |-> t.description, created_at |-> t.created_at]

C30_UpdateStatusFrame ==
  [][ \A id \in TicketIds :
        /\ sql_log'[id] # sql_log[id]
             => /\ id \in SqlIds
                /\ Len(sql_tickets') = Len(sql_tickets)
                /\ \A i \in DOMAIN sql_tickets :
                     IF sql_tickets[i].id = id
                     THEN FrameOf(sql_tickets'[i]) = FrameOf(sql_tickets[i])
                     ELSE sql_tickets'[i] = sql_tickets[i]
                /\ sql_labels' = sql_labels
                /\ Len(sql_history') = Len(sql_history) + 1
                /\ SubSeq(sql_history', 1, Len(sql_history)) = sql_history
                /\ sql_history'[Len(sql_history')].ticket_id = id
        /\ fs_log'[id] # fs_log[id]
             => /\ id \in FsIds
                /\ FsIds' = FsIds
                /\ \A j \in FsIds \ {id} : fs_meta'[j] = fs_meta[j]
                /\ FrameOf(fs_meta'[id]) = FrameOf(fs_meta[id])
                /\ fs_meta'[id].labels = fs_meta[id].labels
                /\ Len(fs_meta'[id].status_history)
                     = Len(fs_meta[id].status_history) + 1
                /\ SubSeq(fs_meta'[id].status_history, 1,
                          Len(fs_meta[id].status_history))
                     = fs_meta[id].status_history ]_vars

\* both stores accepted an update of a ticket with labels while they held
\* another ticket
C30_Witness ==
  \E id \in SqlIds \cap FsIds :
    /\ call.op = "update_status" /\ call.id = id
    /\ sql_ret = Returned(id) /\ fs_ret = Returned(id)
    /\ Cardinality(FsIds) = 2
    /\ \E j \in FsIds : fs_meta[j].labels # << >>

(***************************************************************************)
(* C27.  The file store and the relational store are interchangeable: given *)
(* the same calls with the same ids, claim codes and clock they accept and *)
(* reject the same calls, and the tickets they return are equal in status, *)
(* status history (status, note, actor), labels and the stored customer    *)
(* and device fields.                                                      *)
(***************************************************************************)
\* the last call was made to both stores
StoreCalled ==
  call.op \in {"save_ticket", "update_status", "reclassify", "load", "find_by_claim"}

\* the call returned: a ticket, an id, or None
Accepted(ret) == ret.kind \in {"ok", "None"}

\* what the claim compares of a history: status, note and actor of each entry
HistoryView(h) ==
  [i \in 1..Len(h) |-> [status |-> h[i].status, note |-> h[i].note, by |-> h[i].by]]

\* the same history but for the notes
HistoryActors(h) ==
  [i \in 1..Len(h) |-> [status |-> h[i].status, by |-> h[i].by]]

SameTicket(a, b) ==
  /\ a.status = b.status
  /\ HistoryView(a.status_history) = HistoryView(b.status_history)
  /\ a.labels = b.labels
  /\ CarriesFields(a, b)

C27_StoresInterchangeable ==
  StoreCalled
    => /\ Accepted(sql_ret) <=> Accepted(fs_ret)
       /\ (Accepted(sql_ret) /\ Accepted(fs_ret))
            => /\ sql_ret = fs_ret
               /\ sql_ret.kind = "ok"
                    => \A t \in SqlLoad(sql_ret.id) : SameTicket(t, FsLoad(fs_ret.id))

\* C27, the verdicts alone: a call one store accepts the other accepts
C27_SameVerdict ==
  StoreCalled => (Accepted(sql_ret) <=> Accepted(fs_ret))

\* C27, the tickets alone: a call both stores accept returns equal tickets
C27_SameTicketReturned ==
  (StoreCalled /\ sql_ret.kind = "ok" /\ fs_ret.kind = "ok")
    => /\ sql_ret = fs_ret
       /\ \A t \in SqlLoad(sql_ret.id) : SameTicket(t, FsLoad(fs_ret.id))

\* what the two stores do agree on when both accept a save_ticket: the ticket's
\* id, status, labels, and the status and actor of its history entry
C27_CreatedAgreeButForNotesAndBlanks ==
  (call.op = "save_ticket" /\ sql_ret.kind = "ok" /\ fs_ret.kind = "ok")
    => /\ sql_ret = fs_ret
       /\ \A t \in SqlLoad(sql_ret.id) :
            /\ Strip(t.status) = Strip(FsLoad(fs_ret.id).status)
            /\ t.labels = FsLoad(fs_ret.id).labels
            /\ HistoryActors(t.status_history)
                 = HistoryActors(FsLoad(fs_ret.id).status_history)

(***************************************************************************)
(* Calls in flight, as the claims about concurrent calls read them.        *)
(***************************************************************************)
\* caller p made an update_status call for ticket id to the store and the call
\* has ended
UpdateEnded(p, id, store) ==
  /\ procs[p].op = "update_status" /\ procs[p].id = id /\ procs[p].store = store
  /\ procs[p].pc \in {"done", "raised"}

\* both callers made an update_status call for ticket id to the store, their
\* statements interleaved in some order, and both calls have ended
BothUpdated(id, store) == \A p \in Procs : UpdateEnded(p, id, store)

\* the history holds, after the entry of creation, one entry for each update in
\* the order the updates were written, and the status is that of the last writer
HistoryOfAll(hist, status, log) ==
  /\ Len(hist) = 1 + Len(log)
  /\ \A k \in 1..Len(log) : k + 1 <= Len(hist) => Carries(hist[k + 1], log[k])
  /\ log # << >> => status = Strip(Last(log).status)

(***************************************************************************)
(* C25.  When two update_status calls for the same ticket run at the same  *)
(* time, their storage steps interleaved in any order, both calls          *)
(* complete, the final status is that of the last writer, and the history  *)
(* holds the entries of both: it grows by two.                             *)
(***************************************************************************)
C25_ConcurrentUpdatesBothLand ==
  \A id \in TicketIds :
    /\ BothUpdated(id, "sql")
         => /\ \A p \in Procs : procs[p].ret = Returned(id)
            /\ HistoryOfAll(sql_select_history(id), SqlRow(id).status, sql_log[id])
    /\ BothUpdated(id, "fs")
         => /\ \A p \in Procs : procs[p].ret = Returned(id)
            /\ Parses(fs_meta[id])
            /\ HistoryOfAll(fs_meta[id].status_history, fs_meta[id].status, fs_log[id])

\* C25 in the relational store, for calls that got the write lock: the second
\* writer waits for the commit of the first, and both entries land
C25_RelationalStoreSerialises ==
  \A id \in TicketIds :
    (BothUpdated(id, "sql") /\ \A p \in Procs : procs[p].ret.kind = "ok")
      => HistoryOfAll(sql_select_history(id), SqlRow(id).status, sql_log[id])

\* C25 in the relational store: both calls complete
C25_RelationalStoreBothComplete ==
  \A id \in TicketIds :
    BothUpdated(id, "sql") => \A p \in Procs : procs[p].ret = Returned(id)

\* C25 in the file store
C25_FileStoreBothLand ==
  \A id \in TicketIds :
    BothUpdated(id, "fs")
      => /\ \A p \in Procs : procs[p].ret = Returned(id)
         /\ Parses(fs_meta[id])
         /\ HistoryOfAll(fs_meta[id].status_history, fs_meta[id].status, fs_log[id])

\* C25 in the file store, the text of meta.json only: after two calls that both
\* returned the file still parses
C25_FileStoreStillParses ==
  \A id \in TicketIds :
    (BothUpdated(id, "fs") /\ \A p \in Procs : procs[p].ret.kind = "ok")
      => Parses(fs_meta[id])

\* C25 in the file store when the file still parses: no update is lost
C25_FileStoreKeepsBoth ==
  \A id \in TicketIds :
    (BothUpdated(id, "fs") /\ (\A p \in Procs : procs[p].ret.kind = "ok")
       /\ Parses(fs_meta[id]))
      => HistoryOfAll(fs_meta[id].status_history, fs_meta[id].status, fs_log[id])

\* C25 read as last writer wins on the whole record: after two calls to the file
\* store that both returned, the ticket is the one the last writer wrote
C25_FileStoreLastWriterWins ==
  \A id \in TicketIds :
    (BothUpdated(id, "fs") /\ \A p \in Procs : procs[p].ret.kind = "ok")
      => /\ Parses(fs_meta[id])
         /\ fs_meta[id].status = Last(fs_log[id]).status
         /\ Carries(Last(fs_meta[id].status_history), Last(fs_log[id]))

\* two calls to the relational store were in flight together and both returned
C25_Witness ==
  \E id \in TicketIds :
    /\ BothUpdated(id, "sql")
    /\ \A p \in Procs : procs[p].ret = Returned(id)
    /\ Len(sql_log[id]) = 2

(***************************************************************************)
(* C28.  In every state the stores can be read in, the states between the  *)
(* statements of two update_status calls in flight together included, the  *)
(* status of each ticket is the status of the last entry of its history.   *)
(***************************************************************************)
C28_StatusIsLastOfHistory ==
  /\ \A id \in SqlIds :
       LET hist == sql_select_history(id)
       IN  hist # << >> /\ SqlRow(id).status = Last(hist).status
  /\ \A id \in FsIds :
       Parses(fs_meta[id])
         => /\ fs_meta[id].status_history # << >>
            /\ fs_meta[id].status = Last(fs_meta[id].status_history).status

\* one caller's update of a ticket is committed while the other caller's UPDATE of
\* the same ticket, to another status, is executed and its INSERT is not
C28_Witness ==
  \E id \in SqlIds, p, q \in Procs :
    /\ UpdateEnded(p, id, "sql") /\ procs[p].ret = Returned(id)
    /\ procs[q].op = "update_status" /\ procs[q].store = "sql"
    /\ procs[q].id = id /\ procs[q].pc = "updated"
    /\ procs[q].conn.updates[1].status # SqlRow(id).status

\* in the file store one caller has written its update while the other has loaded
\* the ticket and not yet written
C28_WitnessFileStore ==
  \E id \in FsIds, p, q \in Procs :
    /\ UpdateEnded(p, id, "fs") /\ procs[p].ret = Returned(id)
    /\ procs[q].op = "update_status" /\ procs[q].store = "fs"
    /\ procs[q].id = id /\ procs[q].pc = "loaded"

(***************************************************************************)
(* C29.  Creation in the relational store is atomic: when save_ticket      *)
(* fails before its first commit (a constraint is violated, inserting the  *)
(* labels raises), none of the ticket, history and label rows it wrote is  *)
(* persisted, and no committed state, which is what load, list_all and     *)
(* find_by_claim read, holds a ticket without a history entry.             *)
(***************************************************************************)
\* caller p called save_ticket of the relational store and the call raised
SaveRaised(p) ==
  /\ procs[p].op = "save_ticket" /\ procs[p].store = "sql"
  /\ procs[p].pc = "raised"

C29_CreateIsAtomic ==
  [][ /\ \A id \in SqlIds' \ SqlIds :
           \E p \in Procs :
             /\ procs[p].op = "save_ticket" /\ procs[p].store = "sql"
             /\ procs[p].id = id
             /\ procs'[p].ret = Returned(id)
      /\ \A id \in SqlIds' : RowsOf(sql_history, id)' # << >>
      /\ \A p \in Procs :
           SaveRaised(p)'
             => /\ procs'[p].id \notin SqlIds'
                /\ RowsOf(sql_history', procs'[p].id) = << >>
                /\ RowsOf(sql_labels', procs'[p].id) = << >>
                /\ ~SaveRaised(p)
                     => UNCHANGED <<sql_tickets, sql_history, sql_labels>> ]_vars

\* C29 as an invariant of the committed state: every ticket has a history entry,
\* and the ticket of a call that raised has no row
C29_NoTicketWithoutHistory ==
  /\ \A id \in SqlIds : RowsOf(sql_history, id) # << >>
  /\ \A p \in Procs :
       SaveRaised(p)
         => /\ procs[p].id \notin SqlIds
            /\ RowsOf(sql_history, procs[p].id) = << >>
            /\ RowsOf(sql_labels, procs[p].id) = << >>

\* a save_ticket raised at the labels, after its two INSERT statements, while the
\* store held another ticket, and its connection is still open
C29_Witness ==
  \E p \in Procs :
    /\ SaveRaised(p)
    /\ procs[p].ret = Raised("AttributeError")
    /\ procs[p].conn.holds
    /\ procs[p].conn.tickets # << >>
    /\ SqlIds # {}

\* a save_ticket raised at the INSERT of the ticket, on a claim code in use
C29_WitnessConstraint ==
  \E p \in Procs :
    /\ SaveRaised(p)
    /\ procs[p].ret = Raised("IntegrityError")
    /\ SqlIds # {}

\* the failed call's connection was collected, and its rows are in no table
C29_WitnessCollected ==
  \E p \in Procs :
    /\ SaveRaised(p)
    /\ procs[p].ret = Raised("AttributeError")
    /\ ~procs[p].conn.holds

(***************************************************************************)
(* C22.  After a create every file stored in the attachment area of the    *)
(* ticket, and every file indexed for it, has an extension of the          *)
(* allow-list (jpg, jpeg, png, gif, webp, pdf), whatever the shape of the  *)
(* input: upload object, raw bytes, path.  A file with another extension   *)
(* is skipped and does not make the create fail.                           *)
(***************************************************************************)
\* the names of the files the relational store wrote, and of those it indexed
SqlStoredNames == { f[2] : f \in att.sql_files }

SqlIndexedNames ==
  { att.sql_rows[i].filename : i \in DOMAIN att.sql_rows }
    \cup { att.sql_rows[i].path : i \in DOMAIN att.sql_rows }

FsStoredNames == { f[2] : f \in att.fs_files }

\* the create did not fail on account of its files: it returned, or it raised for
\* a claim code in use or a database that is locked
NotFailedByFiles ==
  /\ fs_ret = Returned(call.id)
  /\ \/ sql_ret = Returned(call.id)
     \/ sql_ret = Raised("IntegrityError") /\ CodeCollided
     \/ sql_ret = Raised("OperationalError")

C22_OnlyAllowedExtensions ==
  /\ \A n \in SqlStoredNames \cup SqlIndexedNames \cup FsStoredNames : allowed_file(n)
  /\ call.op = "save_ticket" => NotFailedByFiles

\* C22 in the file store: upload objects and paths are filtered, raw bytes are
\* not stored
C22_FileStoreFilters ==
  \A n \in FsStoredNames : allowed_file(n)

\* C22, the second half: no file makes the create fail
C22_CreateNotFailedByFiles ==
  call.op = "save_ticket" => NotFailedByFiles

\* every file the relational store indexed is indexed under the name it was
\* stored under
C22_IndexedUnderItsName ==
  \A i \in DOMAIN att.sql_rows : att.sql_rows[i].filename = att.sql_rows[i].path

(***************************************************************************)
(* The status e-mail                                                       *)
(***************************************************************************)
\* the call entered the loop: the configuration was complete and the
\* recipient accepted
InLoop == call.op = "send_status_email" /\ call.pc \in {"attempt", "sleep"}

\* every wait is longer than the one before it
StrictlyIncreasing(q) == \A j \in 1..(Len(q) - 1) : q[j] < q[j + 1]

\* one statement of a call that entered the loop
RetryStep ==
  /\ NotifyAt("attempt") =>
       /\ call'.made = call.made + 1
       /\ call'.made <= attempts
       /\ call'.slept = call.slept
       /\ \/ /\ call'.pc = "done"
             /\ call'.ret.kind = "returned"
             /\ call'.ret.ok /\ call'.ret.message = "sent"
          \/ /\ call.i < attempts
             /\ call'.pc = "sleep"
             /\ call'.last_exc \in TransportErrors
             /\ call'.ret = NoResult
          \/ /\ call.i = attempts /\ call'.made = attempts
             /\ call'.pc = "done"
             /\ call'.last_exc \in TransportErrors
             /\ call'.ret.kind = "returned"
             /\ ~call'.ret.ok /\ call'.ret.message = "send failed: "
          \/ /\ call'.pc = "done"
             /\ call'.ret.kind = "raised"
             /\ call'.ret.exc \notin TransportErrors
  /\ NotifyAt("sleep") =>
       /\ call'.pc = "attempt"
       /\ call'.i = call.i + 1 /\ call'.i <= attempts
       /\ call'.made = call.made
       /\ Len(call'.slept) = Len(call.slept) + 1
       /\ StrictlyIncreasing(call'.slept)
       /\ Last(call'.slept) > 0
  /\ NotifyAt("done") => call'.made = call.made

\* C23: a call of send_status_email that enters the loop makes at most 3
\* delivery attempts; the first attempt that succeeds returns (True, "sent")
\* and ends the call; a transport error on attempt i < 3 is followed by a
\* wait and the next attempt, each wait longer than the one before; the
\* third failed attempt returns (False, message); no fourth attempt is
\* made; and the call ends.
C23_AtMostThreeAttempts ==
  /\ [][RetryStep]_vars
  /\ (InLoop ~> NotifyAt("done"))

\* C23: in every state, the attempts made equal the passes begun, the waits
\* are 1.5 s and 3 s in that order, and a result (True, "sent") or
\* (False, "send failed") stands after the last attempt made.
C23_AttemptsAndWaits ==
  call.op = "send_status_email" =>
    /\ call.made <= attempts
    /\ call.slept \in {<< >>, <<15>>, <<15, 30>>}
    /\ call.pc = "attempt" => call.made = call.i - 1 /\ Len(call.slept) = call.i - 1
    /\ call.pc = "sleep" => call.made = call.i /\ Len(call.slept) = call.i - 1
    /\ (call.ret.kind = "returned" /\ call.ret.message = "sent")
         => call.made = Len(call.slept) + 1
    /\ (call.ret.kind = "returned" /\ call.ret.message = "send failed: ")
         => call.made = attempts /\ call.slept = <<15, 30>>

\* C23: every call of send_status_email ends.
C23_EveryCallEnds == <>(NotifyAt("done"))

\* C23 witness: three attempts failed with transport errors, the call waited
\* 1.5 s and 3 s and returned (False, "send failed: ...").
C23_Witness ==
  /\ NotifyAt("done")
  /\ call.made = attempts
  /\ call.slept = <<15, 30>>
  /\ call.ret.kind = "returned" /\ ~call.ret.ok

\* C23 witness: the second attempt succeeded after one wait.
C23_WitnessSentOnRetry ==
  /\ NotifyAt("done")
  /\ call.made = 2
  /\ call.slept = <<15>>
  /\ call.ret.kind = "returned" /\ call.ret.ok /\ call.ret.message = "sent"

\* the call has ended
NotifyEnded == NotifyAt("done")

\* the settings ask for disabled mode
AskedDisabled(env) == to_bool(get(env, "SMTP_DISABLED", <<"0">>), FALSE)

\* a required setting has no value
SettingMissing(env) == env.SMTP_USER = EMPTY \/ env.SMTP_PASS = EMPTY \/ env.SMTP_PORT = <<"0">>

\* C24: send_status_email reports every failure as an (ok, message) pair
\* and never as an exception: a call that has ended has returned a pair;
\* in disabled mode it made no attempt and the pair is (True, ...), whatever
\* the credentials and the recipient; not disabled with a required setting
\* missing it made no attempt and returned (False, ...); with a recipient
\* that does not match the address pattern it made no attempt and returned
\* (False, ...); after the last failed attempt it returned (False, ...).
C24_FailuresAreReported ==
  NotifyEnded =>
    /\ call.ret.kind = "returned"
    /\ AskedDisabled(call.env) => call.ret.ok /\ call.made = 0
    /\ (~AskedDisabled(call.env) /\ SettingMissing(call.env))
         => ~call.ret.ok /\ call.made = 0
    /\ (~AskedDisabled(call.env) /\ ~MatchesEmailRe(call.to_email))
         => ~call.ret.ok /\ call.made = 0
    /\ (call.made = attempts /\ call.last_exc # "None") => ~call.ret.ok

\* C24: no exception leaves send_status_email.
C24_NeverAnException == call.op = "send_status_email" => call.ret.kind # "raised"

\* C24: once the settings were read (int() accepted the port and the
\* timeout), disabled mode returns (True, preview) without an attempt,
\* whatever the credentials and the recipient.
C24_DisabledPreviews ==
  (NotifyEnded /\ call.cfg # NoCfg /\ call.cfg.DISABLED)
    => /\ call.ret = Reported(TRUE, "preview (SMTP_DISABLED=1)", << >>)
       /\ call.made = 0

\* C24: once the settings were read, a missing required setting outside
\* disabled mode returns (False, "Email not configured...") without an
\* attempt.
C24_NotConfiguredRefused ==
  (NotifyEnded /\ call.cfg # NoCfg /\ ~call.cfg.DISABLED /\ SettingMissing(call.env))
    => /\ call.ret.kind = "returned" /\ ~call.ret.ok
       /\ call.ret.message = "Email not configured. Missing: "
       /\ call.made = 0

\* C24: once the settings were read, complete and not disabled, a recipient
\* that EMAIL_RE.match refuses returns (False, "Invalid recipient...")
\* without an attempt.
C24_RefusedRecipientNotTried ==
  (NotifyEnded /\ call.cfg # NoCfg /\ ~call.cfg.DISABLED /\ call.cfg.ERROR = << >>
     /\ ~recipient_ok(call.to_email))
    => /\ call.ret = Reported(FALSE, "Invalid recipient email: ", call.to_email)
       /\ call.made = 0

\* C24: a recipient with white space in it is never tried.
C24_BlankInRecipientNotTried ==
  (call.op = "send_status_email" /\ \E j \in DOMAIN call.to_email : IsSpace(call.to_email[j]))
    => call.made = 0

\* C24: transport errors on every attempt end in (False, "send failed...").
C24_ExhaustedReturnsFalse ==
  (NotifyEnded /\ call.made = attempts /\ call.last_exc # "None"
     /\ call.ret.kind = "returned" /\ call.ret.message # "sent")
    => ~call.ret.ok /\ call.ret.message = "send failed: "

\* C24: an exception left the call in disabled mode.
C24_RaisedWhileDisabled ==
  NotifyEnded /\ AskedDisabled(call.env) /\ call.ret.kind = "raised"

\* C24: an exception left the call from inside the loop.
C24_RaisedInLoop ==
  NotifyEnded /\ call.made = 1 /\ call.ret.kind = "raised"

====
